---- MODULE Spec2Model ----
(***************************************************************************)
(* The build-queue broker of screwdriver-cd/executor-queue (index.js): the  *)
(* commands of ExecutorQueue, each unrolled into one step per awaited       *)
(* store, queue or HTTP call, the scheduler that moves matured delayed      *)
(* items to their ready queue, and the two worker handlers.                 *)
(***************************************************************************)
EXTENDS Integers, Sequences, FiniteSets, TLC

VARIABLES
    now,                  \* wall clock, in cron minutes
    connected,            \* this.queue.connection.connected
    userTokenGen,         \* this.userTokenGen has been captured
    callsLeft,            \* commands the callers may still issue
    faultsLeft,           \* store / queue / connect failures still to come
    buildConfigs,         \* hash {prefix}buildConfigs:         buildId -> config
    frozenBuildConfigs,   \* hash {prefix}frozenBuildConfigs:   jobId   -> config
    periodicBuildConfigs, \* hash {prefix}periodicBuildConfigs: jobId   -> config
    builds,               \* ready queue {prefix}builds
    frozenDelayed,        \* delayed index of frozenBuilds:   {<<ts, jobId>>}
    periodicDelayed,      \* delayed index of periodicBuilds: {<<ts, jobId>>}
    frozenReady,          \* ready queue frozenBuilds   (startFrozen items)
    periodicReady,        \* ready queue periodicBuilds (startDelayed items)
    timeoutConfigs,       \* hash {prefix}timeoutConfigs: buildId -> entry
    deleteKeys,           \* keys deleted_{jobId}_{buildId}: <<jobId, buildId>> -> ttl
    pc,                   \* per invocation: the awaited call it is suspended at
    cmd,                  \* per invocation: the command and its configuration
    loc,                  \* per invocation: the locals of the running method
    trace,                \* per invocation: the external calls made so far
    result                \* per invocation: what the caller got back

kv    == <<buildConfigs, frozenBuildConfigs, periodicBuildConfigs>>
side  == <<timeoutConfigs, deleteKeys>>
qs    == <<builds, frozenDelayed, periodicDelayed, frozenReady, periodicReady>>
env   == <<now, connected, userTokenGen, callsLeft, faultsLeft>>
procs == <<pc, cmd, loc, trace, result>>
vars  == <<now, connected, userTokenGen, callsLeft, faultsLeft,
           buildConfigs, frozenBuildConfigs, periodicBuildConfigs,
           timeoutConfigs, deleteKeys,
           builds, frozenDelayed, periodicDelayed, frozenReady, periodicReady,
           pc, cmd, loc, trace, result>>

----------------------------------------------------------------------------
(* Bounds of the model *)

MaxTime == 2
MaxCalls == 2
MaxFaults == 2

(* Constants of the program *)

EXPIRE_TIME == 1800
RETRY_LIMIT == 3
DEFAULT_BUILD_TIMEOUT == 90

Procs == {1, 2}
JobIds == {1, 2}
BuildIds == {1, 2}

\* the cron clock: a tick is a minute, an hour has two minutes, a day two hours
Minutes == {0, 1}
Hours == {0, 1}

----------------------------------------------------------------------------
(* Values *)

Without(r, ks) == [k \in DOMAIN r \ ks |-> r[k]]

\* JSON.stringify followed by JSON.parse: function-valued fields are dropped
FunctionFields == {"tokenGen"}
Stringify(config) == Without(config, FunctionFields)

\* /\[(force start)\]/.test(causeMessage), a message being a sequence of words
ForceStart(causeMessage) ==
    \E i \in 1..Len(causeMessage) : causeMessage[i] = "[force start]"

\* Array.prototype.toString: the elements joined by commas
RECURSIVE Csv(_)
Csv(blockedBy) ==
    IF Len(blockedBy) = 0 THEN <<>>
    ELSE IF Len(blockedBy) = 1 THEN <<ToString(blockedBy[1])>>
    ELSE <<ToString(blockedBy[1]), ",">> \o Csv(Tail(blockedBy))

\* one entry of an invocation's record of external calls
E(op, key, at, ret) == [op |-> op, key |-> key, at |-> at, ret |-> ret]

Calls(p, op) == {i \in 1..Len(trace[p]) : trace[p][i].op = op}

----------------------------------------------------------------------------
(* lib/freezeWindows and lib/cron *)

\* a window is the set of minutes it covers
InWindows(windows, t) == \E i \in 1..Len(windows) : t \in windows[i]

RECURSIVE TimeOutOfWindows(_, _)
TimeOutOfWindows(windows, t) ==
    IF InWindows(windows, t) THEN TimeOutOfWindows(windows, t + 1) ELSE t

RECURSIVE Xor(_, _)
Xor(a, b) ==
    IF a = 0 THEN b
    ELSE IF b = 0 THEN a
    ELSE (((a % 2) + (b % 2)) % 2) + (2 * Xor(a \div 2, b \div 2))

\* string-hash of the decimal text of a one-digit job id
StringHash(jobId) == Xor(5381 * 33, 48 + jobId)

\* the value an H field gets, as the tests of transformCron evaluate it
EvaluateHashNoOffset(jobId, min, max) == StringHash(jobId) % ((max + 1) - min)

EvaluateHash(jobId, min, max) == (StringHash(jobId) % ((max + 1) - min)) + min

Least(range) == CHOOSE x \in range : \A y \in range : x <= y
Greatest(range) == CHOOSE x \in range : \A y \in range : x >= y

\* a cron expression is <<minute field, hour field>>, a field "*" or "H"
CronField(field, range, jobId) ==
    IF field = "H"
    THEN EvaluateHash(jobId, Least(range), Greatest(range))
    ELSE -1

\* the minute field is always hashed
CronTransform(buildCron, jobId) ==
    <<CronField("H", Minutes, jobId), CronField(buildCron[2], Hours, jobId)>>

\* transform, on the five fields of an expression and their real ranges: a
\* field is "*", H or H/step over the default range of its position, or
\* H(lo-hi)
DefaultRange(pos) ==
    CASE pos = 1 -> <<0, 59>>
      [] pos = 2 -> <<0, 23>>
      [] pos = 3 -> <<1, 28>>
      [] pos = 4 -> <<1, 12>>
      [] pos = 5 -> <<0, 6>>

Star == [sym |-> "*", lo |-> 0, hi |-> 0, step |-> 0]
H(step) == [sym |-> "H", lo |-> 0, hi |-> 0, step |-> step]
HRange(lo, hi) == [sym |-> "H()", lo |-> lo, hi |-> hi, step |-> 0]

\* the range an H field is hashed into
RangeOf(f, pos) == IF f.sym = "H()" THEN <<f.lo, f.hi>> ELSE DefaultRange(pos)

\* the minute field is hashed whatever it holds
Hashed(f, pos) == f.sym # "*" \/ pos = 1

InvalidRange(f, pos) ==
    /\ Hashed(f, pos)
    /\ \/ RangeOf(f, pos)[1] < DefaultRange(pos)[1]
       \/ RangeOf(f, pos)[2] > DefaultRange(pos)[2]
       \/ RangeOf(f, pos)[1] > RangeOf(f, pos)[2]

TransformField(f, pos, jobId) ==
    IF Hashed(f, pos)
    THEN [sym |-> "n", step |-> f.step,
          value |-> EvaluateHash(jobId, RangeOf(f, pos)[1], RangeOf(f, pos)[2])]
    ELSE [sym |-> "*", step |-> 0, value |-> 0]

Transform(expr, jobId) ==
    IF Len(expr) # 5
    THEN [error |-> "MalformedCron", fields |-> <<>>]
    ELSE IF \E pos \in 1..5 : InvalidRange(expr[pos], pos)
    THEN [error |-> "InvalidRange", fields |-> <<>>]
    ELSE [error |-> "ok",
          fields |-> [pos \in 1..5 |-> TransformField(expr[pos], pos, jobId)]]

MinuteOf(t) == t % Cardinality(Minutes)
HourOf(t) == (t \div Cardinality(Minutes)) % Cardinality(Hours)

CronFires(cronExp, t) ==
    /\ cronExp[1] \in {-1, MinuteOf(t)}
    /\ cronExp[2] \in {-1, HourOf(t)}

RECURSIVE FirstFiring(_, _)
FirstFiring(cronExp, t) ==
    IF CronFires(cronExp, t) THEN t ELSE FirstFiring(cronExp, t + 1)

\* cron.next: the first firing strictly after the current instant
CronNext(cronExp, t) == FirstFiring(cronExp, t + 1)

----------------------------------------------------------------------------
(* The queue client (node-resque) *)

DelayedAt(index, jobId) == {e[1] : e \in {x \in index : x[2] = jobId}}

\* enqueueAt refuses an item already scheduled at the same timestamp
IsDuplicate(index, ts, jobId) == <<ts, jobId>> \in index
EnqueueAt(index, ts, jobId) == index \cup {<<ts, jobId>>}

\* del removes every item of the queue equal to the given one
Del(queue, item) == SelectSeq(queue, LAMBDA x : x # item)

\* delDelayed removes the item at every timestamp it is scheduled at
DelDelayed(index, jobId) == {x \in index : x[2] # jobId}

----------------------------------------------------------------------------
(* The HTTP client (requestretry) *)

\* the outcome of one attempt: an HTTP status, or 0 for a transport error,
\* which comes without a response object
AttemptOutcomes == {0, 200, 201, 404, 500}
\* n - 1 attempts that fail the same way, then an attempt with any outcome
Attempts ==
    {[i \in 1..RETRY_LIMIT |-> IF i < n THEN f ELSE s] :
        n \in 1..RETRY_LIMIT, f \in {0, 500}, s \in AttemptOutcomes}

requestRetryStrategy(status) == status = 0 \/ (status # 201 /\ status # 200)
requestRetryStrategyPostEvent(status) ==
    status = 0 \/ (status # 201 /\ status # 200 /\ status # 404)

\* options.retryStrategy, by the name of the strategy
Retry(strategy, status) ==
    IF strategy = "requestRetryStrategyPostEvent"
    THEN requestRetryStrategyPostEvent(status)
    ELSE requestRetryStrategy(status)

\* the attempt whose outcome the callback gets: the first one the strategy
\* does not retry, else the last of maxAttempts
RECURSIVE LastAttempt(_, _, _)
LastAttempt(attempts, strategy, i) ==
    IF i < RETRY_LIMIT /\ Retry(strategy, attempts[i])
    THEN LastAttempt(attempts, strategy, i + 1)
    ELSE i

\* the promise around requestretry: "resolved", "rejected", or "pending" when
\* the callback throws on response.statusCode of a missing response
Settle(status, expected) ==
    IF status = expected THEN "resolved"
    ELSE IF status = 0 THEN "pending"
    ELSE "rejected"

updateBuildStatus(attempts) ==
    Settle(attempts[LastAttempt(attempts, "requestRetryStrategy", 1)], 200)

postRequest(attempts) ==
    Settle(attempts[LastAttempt(attempts, "requestRetryStrategyPostEvent", 1)], 201)

----------------------------------------------------------------------------
(* The names the executor gives its queues, tables and keys *)

\* config.prefix of two executors that share a store
Prefixes == {"alpha_", "beta_"}

\* a name is the sequence of the parts its template literal joins
buildQueue(prefix) == <<prefix, "builds">>
periodicBuildQueue(prefix) == <<prefix, "periodicBuilds">>
frozenBuildQueue(prefix) == <<prefix, "frozenBuilds">>
buildConfigTable(prefix) == <<prefix, "buildConfigs">>
periodicBuildTable(prefix) == <<prefix, "periodicBuildConfigs">>
frozenBuildTable(prefix) == <<prefix, "frozenBuildConfigs">>
timeoutQueue(prefix) == <<prefix, "timeoutConfigs">>
deleteKey(jobId, buildId) == <<"deleted_", ToString(jobId), "_", ToString(buildId)>>

\* the calls that name a queue, a table or a key of the store
StoreOps ==
    {"enqueue:builds", "del:builds", "enqueueAt:periodicBuilds",
     "delDelayed:periodicBuilds", "enqueueAt:frozenBuilds",
     "delDelayed:frozenBuilds", "hset:buildConfigs",
     "hset:periodicBuildConfigs", "hget:periodicBuildConfigs",
     "hdel:periodicBuildConfigs", "hset:frozenBuildConfigs",
     "hget:frozenBuildConfigs", "hdel:frozenBuildConfigs",
     "hget:timeoutConfigs", "hset:timeoutConfigs", "hdel:timeoutConfigs",
     "set", "expire"}

\* the name a call of an executor with this prefix hands to the store
NameOf(prefix, e) ==
    CASE e.op \in {"enqueue:builds", "del:builds"} -> buildQueue(prefix)
      [] e.op \in {"enqueueAt:periodicBuilds", "delDelayed:periodicBuilds"} ->
            periodicBuildQueue(prefix)
      [] e.op \in {"enqueueAt:frozenBuilds", "delDelayed:frozenBuilds"} ->
            frozenBuildQueue(prefix)
      [] e.op = "hset:buildConfigs" -> buildConfigTable(prefix)
      [] e.op \in {"hset:periodicBuildConfigs", "hget:periodicBuildConfigs",
                   "hdel:periodicBuildConfigs"} -> periodicBuildTable(prefix)
      [] e.op \in {"hset:frozenBuildConfigs", "hget:frozenBuildConfigs",
                   "hdel:frozenBuildConfigs"} -> frozenBuildTable(prefix)
      [] e.op \in {"hget:timeoutConfigs", "hset:timeoutConfigs",
                   "hdel:timeoutConfigs"} -> timeoutQueue(prefix)
      [] e.op \in {"set", "expire"} -> deleteKey(e.key[1], e.key[2])

----------------------------------------------------------------------------
(* Hashes of the key/value store *)

HSet(hash, key, value) ==
    [k \in DOMAIN hash \cup {key} |-> IF k = key THEN value ELSE hash[k]]
HDel(hash, key) == [k \in DOMAIN hash \ {key} |-> hash[k]]
HHas(hash, key) == key \in DOMAIN hash

----------------------------------------------------------------------------
(* The commands the callers issue *)

JobStates == {<<"ENABLED", FALSE>>, <<"DISABLED", FALSE>>, <<"ENABLED", TRUE>>}
FreezeWindows == {<<>>, <<{0}>>, <<{0, 1}>>}
CauseMessages == {<<"ad hoc">>, <<"[force start]", "ad hoc">>}
BuildCrons == {<<>>, <<"H", "*">>, <<"H", "H">>}

\* a job is always blocked by itself
BlockedBy(jobId) == IF jobId = 1 THEN <<1>> ELSE <<jobId, 1>>

\* build b is a build of job b; the build object of build 1 carries stats
StartCommand(j, s, w, m) ==
    [op |-> "start", by |-> "caller",
     config |-> [buildId |-> j, jobId |-> j, jobState |-> s[1],
                 jobArchived |-> s[2], blockedBy |-> BlockedBy(j),
                 freezeWindows |-> w, causeMessage |-> m,
                 build |-> [stats |-> (j = 1)], tokenGen |-> "function"]]

StartCommands ==
    {StartCommand(j, <<"ENABLED", FALSE>>, w, m) :
        j \in JobIds, w \in FreezeWindows, m \in CauseMessages}
    \cup {StartCommand(j, s, w, <<"ad hoc">>) :
            j \in JobIds, s \in JobStates, w \in {<<>>, <<{0, 1}>>}}

\* Starts of job 1 under freeze windows that overlap, follow one another or
\* leave a gap
FreezeCommands ==
    {StartCommand(1, <<"ENABLED", FALSE>>, w, m) :
        w \in {<<>>, <<{0}>>, <<{1}>>, <<{0}, {1}>>, <<{0, 1}, {1, 2}>>,
               <<{2}, {0}>>},
        m \in CauseMessages}

StartPeriodicCommand(j, s, c, u, t) ==
    [op |-> "startPeriodic", by |-> "caller",
     config |-> [job |-> [id |-> j, state |-> s[1], archived |-> s[2],
                          buildPeriodically |-> c],
                 tokenGen |-> "function", isUpdate |-> u, triggerBuild |-> t]]

StartPeriodicCommands ==
    {StartPeriodicCommand(j, <<"ENABLED", FALSE>>, c, u, t) :
        j \in JobIds, c \in BuildCrons \ {<<>>}, u \in BOOLEAN, t \in BOOLEAN}
    \cup {StartPeriodicCommand(j, s, c, u, FALSE) :
            j \in JobIds, s \in JobStates, c \in {<<>>, <<"H", "*">>},
            u \in BOOLEAN}

StopPeriodicCommands ==
    {[op |-> "stopPeriodic", by |-> "caller", config |-> [jobId |-> j]] : j \in JobIds}
StopFrozenCommands ==
    {[op |-> "stopFrozen", by |-> "caller", config |-> [jobId |-> j]] : j \in JobIds}

\* Stop is given the blockedBy of the build, or none
StopCommands ==
    {[op |-> "stop", by |-> "caller",
      config |-> [buildId |-> j, jobId |-> j, blockedBy |-> BlockedBy(j)]] :
        j \in JobIds}
    \cup {[op |-> "stop", by |-> "caller",
           config |-> [buildId |-> j, jobId |-> j]] : j \in JobIds}

\* StartFrozen as the base class exposes it, given the config of a job
StartFrozenCommands ==
    {[op |-> "startFrozen", by |-> "caller",
      config |-> [jobId |-> j, jobState |-> s[1], jobArchived |-> s[2]]] :
        j \in JobIds, s \in JobStates}

\* postBuildEvent and updateBuildStatus, given what the API answers to each
\* attempt
HttpRequests ==
    {[op |-> o, by |-> "caller", config |-> [attempts |-> a]] :
        o \in {"postBuildEvent", "updateBuildStatus"},
        a \in [1..RETRY_LIMIT -> AttemptOutcomes]}

\* cron.transform(buildCron, job.id), for expressions of five fields with and
\* without H, one with a range outside the default, and ones that do not
\* have five fields
CronExprs ==
    {<<m, h, d, mo, w>> :
        m \in {Star, H(0), HRange(10, 20)},
        h \in {Star, H(0), H(2), HRange(0, 5)},
        d \in {Star, H(0)},
        mo \in {Star, HRange(6, 8)},
        w \in {Star, H(0)}}
    \cup {<<Star, HRange(99, 100), Star, Star, Star>>,
          <<H(0), Star, Star, Star>>,
          <<H(0), Star, Star, Star, Star, Star>>}

TransformCommand(e, j) ==
    [op |-> "transform", by |-> "caller", config |-> [expr |-> e, jobId |-> j]]

TransformCommands == {TransformCommand(e, j) : e \in CronExprs, j \in JobIds}

\* the expressions a second caller transforms
TransformAgainCommands ==
    {TransformCommand(e, j) :
        e \in {<<Star, H(2), Star, HRange(6, 8), Star>>,
               <<HRange(10, 20), HRange(0, 5), H(0), Star, H(0)>>,
               <<Star, HRange(99, 100), Star, Star, Star>>},
        j \in JobIds}

BuildStatuses == {"RUNNING", "QUEUED"}
StartTimes == {0, 1}
\* the annotation screwdriver.cd/timeout, 0 when the build has none
TimeoutAnnotations == {0, 120}

StartTimerCommands ==
    {[op |-> "startTimer", by |-> "caller",
      config |-> [buildId |-> b, jobId |-> b, buildStatus |-> s,
                  startTime |-> t, annotations |-> a]] :
        b \in BuildIds, s \in BuildStatuses, t \in StartTimes,
        a \in TimeoutAnnotations}
StopTimerCommands ==
    {[op |-> "stopTimer", by |-> "caller", config |-> [buildId |-> b]] :
        b \in BuildIds}

Commands ==
    StartCommands \cup StartPeriodicCommands \cup StopPeriodicCommands
        \cup StopFrozenCommands

\* the job a command is about
JobOf(c) == IF c.op \in {"startPeriodic"} THEN c.config.job.id ELSE c.config.jobId

NoCommand == [op |-> "none", by |-> "none", config |-> <<>>]
\* the hash tables, the ready queues and the delayed indexes
Tables == <<kv, timeoutConfigs, qs>>

NoLocals ==
    [currentTime |-> 0, origTime |-> 0, next |-> 0, numDeleted |-> 0,
     again |-> FALSE, entry |-> <<>>]

----------------------------------------------------------------------------
(* Control flow of the methods *)

Idle == {"idle", "done"}

ViaConnect(connectLabel, label) == connectLabel

\* connect(): a connected client is not connected again
Via(connectLabel, label) == IF connected THEN label ELSE connectLabel

SchedulesWhateverTheState(config) == config.job.buildPeriodically # <<>>

\* _startPeriodic, after the optional _stopPeriodic and postBuildEvent
Schedules(config) ==
    /\ config.job.buildPeriodically # <<>>
    /\ config.job.state = "ENABLED"
    /\ ~config.job.archived

AfterPostBuildEvent(config) ==
    IF Schedules(config)
    THEN Via("startPeriodic.connect", "startPeriodic.hset")
    ELSE "done"

AfterStopPeriodic(config) ==
    IF config.triggerBuild
    THEN "startPeriodic.postBuildEvent"
    ELSE AfterPostBuildEvent(config)

InFreezeWindowAtOrLater(config, t) ==
    /\ TimeOutOfWindows(config.freezeWindows, t) >= t
    /\ ~ForceStart(config.causeMessage)

InFreezeWindowWhateverTheCause(config, t) ==
    TimeOutOfWindows(config.freezeWindows, t) > t

\* _start, after _stopFrozen: skip, freeze or enqueue
InFreezeWindow(config, t) ==
    /\ TimeOutOfWindows(config.freezeWindows, t) > t
    /\ ~ForceStart(config.causeMessage)

AfterStopFrozenWhateverTheState(config) ==
    IF InFreezeWindow(config, now)
    THEN "start.updateBuildStatus"
    ELSE "start.hset"

AfterStopFrozen(config) ==
    IF config.jobState = "DISABLED" \/ config.jobArchived = TRUE
    THEN "done"
    ELSE IF InFreezeWindow(config, now)
    THEN "start.updateBuildStatus"
    ELSE "start.hset"

\* for backward compatibility: build.update() when the build has stats
AfterEnqueue(config) ==
    IF config.build.stats THEN "start.buildUpdate" ELSE "done"

\* _startFrozen: a disabled or archived job posts nothing
StartFrozenEntry(config) ==
    IF config.jobState = "DISABLED" \/ config.jobArchived = TRUE
    THEN "done"
    ELSE "startFrozen.postBuildEvent"

\* _startTimer, once connected: only a RUNNING build gets a timer
AfterTimerConnect(config) ==
    IF config.buildStatus = "RUNNING" THEN "startTimer.hget" ELSE "done"

EntryWithoutStop(c) ==
    CASE c.op = "start" -> Via("start.connect", "stopFrozen.delDelayed")
      [] c.op = "stopFrozen" -> Via("stopFrozen.connect", "stopFrozen.delDelayed")
      [] c.op = "stopPeriodic" -> Via("stopPeriodic.connect", "stopPeriodic.delDelayed")
      [] c.op = "startPeriodic" -> AfterStopPeriodic(c.config)
      [] c.op = "stop" -> Via("stop.connect", "stop.del")
      [] c.op = "startFrozen" -> StartFrozenEntry(c.config)
      [] c.op = "transform" -> "cron.transform"
      [] c.op \in {"postBuildEvent", "updateBuildStatus"} -> "http.attempt"
      [] c.op = "startTimer" -> Via("startTimer.connect", AfterTimerConnect(c.config))
      [] c.op = "stopTimer" -> Via("stopTimer.connect", "stopTimer.hget")

\* where a command starts
Entry(c) ==
    CASE c.op = "start" -> Via("start.connect", "stopFrozen.delDelayed")
      [] c.op = "stopFrozen" -> Via("stopFrozen.connect", "stopFrozen.delDelayed")
      [] c.op = "stopPeriodic" -> Via("stopPeriodic.connect", "stopPeriodic.delDelayed")
      [] c.op = "startPeriodic" ->
            IF c.config.isUpdate
            THEN Via("stopPeriodic.connect", "stopPeriodic.delDelayed")
            ELSE AfterStopPeriodic(c.config)
      [] c.op = "stop" -> Via("stop.connect", "stop.del")
      [] c.op = "startFrozen" -> StartFrozenEntry(c.config)
      [] c.op = "transform" -> "cron.transform"
      [] c.op \in {"postBuildEvent", "updateBuildStatus"} -> "http.attempt"
      [] c.op = "startTimer" -> Via("startTimer.connect", AfterTimerConnect(c.config))
      [] c.op = "stopTimer" -> Via("stopTimer.connect", "stopTimer.hget")

\* the locals a method sets when it reaches a label
Enter(locals, c, label) ==
    CASE label \in {"start.updateBuildStatus", "start.hset"} ->
            [locals EXCEPT !.origTime = now,
                           !.currentTime = TimeOutOfWindows(c.config.freezeWindows, now)]
      [] label = "startPeriodic.hset" ->
            [locals EXCEPT !.next = CronNext(
                CronTransform(c.config.job.buildPeriodically, c.config.job.id), now)]
      [] OTHER -> locals

\* the invocation goes on to label, having made the calls es
Goto(p, label, es) ==
    /\ pc' = [pc EXCEPT ![p] = label]
    /\ trace' = [trace EXCEPT ![p] = @ \o es]
    /\ loc' = [loc EXCEPT ![p] = Enter(@, cmd[p], label)]
    /\ result' = [result EXCEPT ![p] = IF label = "done" THEN "ok" ELSE @]

\* the invocation returns r to its caller, having made the calls es
Return(p, r, es) ==
    /\ pc' = [pc EXCEPT ![p] = "done"]
    /\ trace' = [trace EXCEPT ![p] = @ \o es]
    /\ result' = [result EXCEPT ![p] = r]
    /\ UNCHANGED loc

RejectLogged(p, op, key, err) ==
    /\ faultsLeft > 0
    /\ faultsLeft' = faultsLeft - 1
    /\ Goto(p, "done", <<E(op, key, {}, err)>>)
    /\ UNCHANGED <<now, connected, userTokenGen, callsLeft, kv, side, qs, cmd>>

\* a connect, store or queue call that fails rejects the command
Reject(p, op, key, err) ==
    /\ faultsLeft > 0
    /\ faultsLeft' = faultsLeft - 1
    /\ Return(p, err, <<E(op, key, {}, err)>>)
    /\ UNCHANGED <<now, connected, userTokenGen, callsLeft, kv, side, qs, cmd>>

----------------------------------------------------------------------------
(* Issuing a command *)

Call(p, c) ==
    /\ pc[p] \in Idle
    /\ callsLeft > 0
    /\ callsLeft' = callsLeft - 1
    /\ cmd' = [cmd EXCEPT ![p] = c]
    /\ pc' = [pc EXCEPT ![p] = Entry(c)]
    /\ trace' = [trace EXCEPT ![p] = <<>>]
    /\ loc' = [loc EXCEPT ![p] = Enter(NoLocals, c, Entry(c))]
    /\ result' = [result EXCEPT ![p] = IF Entry(c) = "done" THEN "ok" ELSE "none"]
    /\ userTokenGen' = (userTokenGen \/ c.op = "startPeriodic")
    /\ UNCHANGED <<now, connected, faultsLeft, kv, side, qs>>

\* the caller issues the command that has just succeeded once more, with the
\* same configuration; the invocation remembers the tables it started from
Repeat(p) ==
    /\ pc[p] = "done"
    /\ result[p] = "ok"
    /\ cmd[p].by = "caller"
    /\ callsLeft > 0
    /\ callsLeft' = callsLeft - 1
    /\ pc' = [pc EXCEPT ![p] = Entry(cmd[p])]
    /\ trace' = [trace EXCEPT ![p] = <<>>]
    /\ loc' = [loc EXCEPT ![p] =
                  Enter([NoLocals EXCEPT !.again = TRUE, !.entry = Tables],
                        cmd[p], Entry(cmd[p]))]
    /\ result' = [result EXCEPT ![p] =
                     IF Entry(cmd[p]) = "done" THEN "ok" ELSE "none"]
    /\ UNCHANGED <<now, connected, userTokenGen, faultsLeft, kv, side, qs, cmd>>

ConnectNext(label) ==
    CASE label = "start.connect" -> "stopFrozen.delDelayed"
      [] label = "stopFrozen.connect" -> "stopFrozen.delDelayed"
      [] label = "stopPeriodic.connect" -> "stopPeriodic.delDelayed"
      [] label = "startPeriodic.connect" -> "startPeriodic.hset"
      [] label = "stop.connect" -> "stop.del"

ConnectLabels ==
    {"start.connect", "stopFrozen.connect", "stopPeriodic.connect",
     "startPeriodic.connect", "stop.connect"}

Connect(p) ==
    /\ pc[p] \in ConnectLabels
    /\ \/ /\ connected' = TRUE
          /\ Goto(p, ConnectNext(pc[p]), <<E("connect", 0, {}, "ok")>>)
          /\ UNCHANGED <<now, userTokenGen, callsLeft, faultsLeft, kv, side, qs, cmd>>
       \/ Reject(p, "connect", 0, "ConnectError")

----------------------------------------------------------------------------
(* _stopFrozen, alone or as the first step of _start *)

StopFrozenDelDelayed(p) ==
    /\ pc[p] = "stopFrozen.delDelayed"
    /\ LET jobId == cmd[p].config.jobId IN
       \/ /\ frozenDelayed' = DelDelayed(frozenDelayed, jobId)
          /\ Goto(p, "stopFrozen.hdel",
                  <<E("delDelayed:frozenBuilds", jobId,
                      DelayedAt(frozenDelayed, jobId), "ok")>>)
          /\ UNCHANGED <<env, kv, side, builds, periodicDelayed, frozenReady,
                         periodicReady, cmd>>
       \/ Reject(p, "delDelayed:frozenBuilds", jobId, "QueueError")

StopFrozenHDel(p) ==
    /\ pc[p] = "stopFrozen.hdel"
    /\ LET jobId == cmd[p].config.jobId IN
       \/ /\ frozenBuildConfigs' = HDel(frozenBuildConfigs, jobId)
          /\ Goto(p, IF cmd[p].op = "start"
                     THEN AfterStopFrozen(cmd[p].config) ELSE "done",
                  <<E("hdel:frozenBuildConfigs", jobId, {},
                      IF HHas(frozenBuildConfigs, jobId) THEN "1" ELSE "0")>>)
          /\ UNCHANGED <<env, buildConfigs, periodicBuildConfigs, side, qs,
                         cmd>>
       \/ Reject(p, "hdel:frozenBuildConfigs", jobId, "StoreError")

----------------------------------------------------------------------------
(* _start *)

StartConfigKeepsCause(config) == Stringify(Without(config, {"build"}))

\* what _start serializes: the config without its build and causeMessage
StartConfig(config) == Stringify(Without(config, {"build", "causeMessage"}))

StartUpdateBuildStatus(p) ==
    /\ pc[p] = "start.updateBuildStatus"
    /\ \E attempts \in Attempts :
         LET settled == updateBuildStatus(attempts) IN
         Goto(p, IF settled = "pending" THEN "hung" ELSE "start.delDelayed",
              <<E("updateBuildStatus", cmd[p].config.buildId,
                  {loc[p].currentTime}, settled)>>)
    /\ UNCHANGED <<env, kv, side, side, qs,
                         cmd>>

StartDelDelayed(p) ==
    /\ pc[p] = "start.delDelayed"
    /\ LET jobId == cmd[p].config.jobId IN
       \/ /\ frozenDelayed' = DelDelayed(frozenDelayed, jobId)
          /\ Goto(p, "start.hsetFrozen",
                  <<E("delDelayed:frozenBuilds", jobId,
                      DelayedAt(frozenDelayed, jobId), "ok")>>)
          /\ UNCHANGED <<env, kv, side, builds, periodicDelayed, frozenReady,
                         periodicReady, cmd>>
       \/ Reject(p, "delDelayed:frozenBuilds", jobId, "QueueError")

StartHSetFrozen(p) ==
    /\ pc[p] = "start.hsetFrozen"
    /\ LET jobId == cmd[p].config.jobId IN
       \/ /\ frozenBuildConfigs' =
                HSet(frozenBuildConfigs, jobId, StartConfig(cmd[p].config))
          /\ Goto(p, "start.enqueueAt",
                  <<E("hset:frozenBuildConfigs", jobId, {}, "ok")>>)
          /\ UNCHANGED <<env, buildConfigs, periodicBuildConfigs, side, qs,
                         cmd>>
       \/ Reject(p, "hset:frozenBuildConfigs", jobId, "StoreError")

StartEnqueueAtOrigTime(p) ==
    /\ pc[p] = "start.enqueueAt"
    /\ LET jobId == cmd[p].config.jobId
           ts == loc[p].origTime IN
       \/ /\ frozenDelayed' = EnqueueAt(frozenDelayed, ts, jobId)
          /\ Goto(p, AfterEnqueue(cmd[p].config),
                  <<E("enqueueAt:frozenBuilds", jobId, {ts}, "ok")>>)
          /\ UNCHANGED <<env, kv, side, builds, periodicDelayed, frozenReady,
                         periodicReady, cmd>>
       \/ Reject(p, "enqueueAt:frozenBuilds", jobId, "QueueError")

StartEnqueueAt(p) ==
    /\ pc[p] = "start.enqueueAt"
    /\ LET jobId == cmd[p].config.jobId
           ts == loc[p].currentTime IN
       \/ /\ IsDuplicate(frozenDelayed, ts, jobId)
          /\ Return(p, "DuplicateScheduled",
                    <<E("enqueueAt:frozenBuilds", jobId, {ts}, "duplicate")>>)
          /\ UNCHANGED <<env, kv, side, side, qs,
                         cmd>>
       \/ /\ ~IsDuplicate(frozenDelayed, ts, jobId)
          /\ frozenDelayed' = EnqueueAt(frozenDelayed, ts, jobId)
          /\ Goto(p, AfterEnqueue(cmd[p].config),
                  <<E("enqueueAt:frozenBuilds", jobId, {ts}, "ok")>>)
          /\ UNCHANGED <<env, kv, side, builds, periodicDelayed, frozenReady,
                         periodicReady, cmd>>
       \/ Reject(p, "enqueueAt:frozenBuilds", jobId, "QueueError")

StartHSetAfterEnqueue(p) ==
    /\ pc[p] = "start.hset"
    /\ LET buildId == cmd[p].config.buildId IN
       \/ /\ builds' = Append(builds,
                [jobName |-> "start", buildId |-> buildId,
                 jobId |-> cmd[p].config.jobId,
                 blockedBy |-> Csv(cmd[p].config.blockedBy)])
          /\ Goto(p, "start.enqueue", <<E("enqueue:builds", buildId, {}, "ok")>>)
          /\ UNCHANGED <<env, kv, side, frozenDelayed, periodicDelayed, frozenReady,
                         periodicReady, cmd>>
       \/ Reject(p, "enqueue:builds", buildId, "QueueError")

StartHSet(p) ==
    /\ pc[p] = "start.hset"
    /\ LET buildId == cmd[p].config.buildId IN
       \/ /\ buildConfigs' =
                HSet(buildConfigs, buildId,
                     [enqueueTime |-> loc[p].origTime] @@ StartConfig(cmd[p].config))
          /\ Goto(p, "start.enqueue", <<E("hset:buildConfigs", buildId, {}, "ok")>>)
          /\ UNCHANGED <<env, frozenBuildConfigs, periodicBuildConfigs, side, qs,
                         cmd>>
       \/ Reject(p, "hset:buildConfigs", buildId, "StoreError")

StartItem(config) ==
    [jobName |-> "start", buildId |-> config.buildId, jobId |-> config.jobId,
     blockedBy |-> Csv(config.blockedBy)]

StartEnqueue(p) ==
    /\ pc[p] = "start.enqueue"
    /\ LET buildId == cmd[p].config.buildId IN
       \/ /\ builds' = Append(builds, StartItem(cmd[p].config))
          /\ Goto(p, AfterEnqueue(cmd[p].config),
                  <<E("enqueue:builds", buildId, {}, "ok")>>)
          /\ UNCHANGED <<env, kv, side, frozenDelayed, periodicDelayed, frozenReady,
                         periodicReady, cmd>>
       \/ Reject(p, "enqueue:builds", buildId, "QueueError")

StartBuildUpdate(p) ==
    /\ pc[p] = "start.buildUpdate"
    /\ LET buildId == cmd[p].config.buildId IN
       \/ /\ Goto(p, "done", <<E("build.update", buildId, {}, "ok")>>)
          /\ UNCHANGED <<env, kv, side, side, qs,
                         cmd>>
       \/ Reject(p, "build.update", buildId, "UpdateError")

----------------------------------------------------------------------------
(* _stopPeriodic, alone or as the first step of an updating _startPeriodic *)

StopPeriodicDelDelayed(p) ==
    /\ pc[p] = "stopPeriodic.delDelayed"
    /\ LET jobId == JobOf(cmd[p]) IN
       \/ /\ periodicDelayed' = DelDelayed(periodicDelayed, jobId)
          /\ Goto(p, "stopPeriodic.hdel",
                  <<E("delDelayed:periodicBuilds", jobId,
                      DelayedAt(periodicDelayed, jobId), "ok")>>)
          /\ UNCHANGED <<env, kv, side, builds, frozenDelayed, frozenReady,
                         periodicReady, cmd>>
       \/ Reject(p, "delDelayed:periodicBuilds", jobId, "QueueError")

StopPeriodicHDelKeeps(p) ==
    /\ pc[p] = "stopPeriodic.hdel"
    /\ LET jobId == JobOf(cmd[p]) IN
       /\ Goto(p, IF cmd[p].op = "startPeriodic"
                  THEN AfterStopPeriodic(cmd[p].config) ELSE "done",
               <<E("hdel:periodicBuildConfigs", jobId, {},
                   IF HHas(periodicBuildConfigs, jobId) THEN "1" ELSE "0")>>)
       /\ UNCHANGED <<env, kv, side, side, qs,
                         cmd>>

StopPeriodicHDel(p) ==
    /\ pc[p] = "stopPeriodic.hdel"
    /\ LET jobId == JobOf(cmd[p]) IN
       \/ /\ periodicBuildConfigs' = HDel(periodicBuildConfigs, jobId)
          /\ Goto(p, IF cmd[p].op = "startPeriodic"
                     THEN AfterStopPeriodic(cmd[p].config) ELSE "done",
                  <<E("hdel:periodicBuildConfigs", jobId, {},
                      IF HHas(periodicBuildConfigs, jobId) THEN "1" ELSE "0")>>)
          /\ UNCHANGED <<env, buildConfigs, frozenBuildConfigs, side, qs,
                         cmd>>
       \/ Reject(p, "hdel:periodicBuildConfigs", jobId, "StoreError")

----------------------------------------------------------------------------
(* postBuildEvent, for _startPeriodic and _startFrozen *)

\* cron.transform returns the transformed expression, or throws
CronTransformStep(p) ==
    /\ pc[p] = "cron.transform"
    /\ LET out == Transform(cmd[p].config.expr, cmd[p].config.jobId) IN
         Return(p, out.error,
                <<E("cron.transform", cmd[p].config.jobId, {out.fields},
                    out.error)>>)
    /\ UNCHANGED <<env, kv, side, qs, cmd>>

\* options.retryStrategy and the status the callback resolves on
HttpStrategy(op) ==
    IF op = "postBuildEvent"
    THEN "requestRetryStrategyPostEvent" ELSE "requestRetryStrategy"
HttpExpected(op) == IF op = "postBuildEvent" THEN 201 ELSE 200

\* requestretry makes one more attempt, and calls back after the last
HttpAttempt(p) ==
    /\ pc[p] = "http.attempt"
    /\ LET op == cmd[p].op
           i == Cardinality(Calls(p, "attempt")) + 1
           status == cmd[p].config.attempts[i]
           settled == Settle(status, HttpExpected(op))
           attempt == <<E("attempt", status, {i}, "sent")>> IN
       \/ /\ op = "postBuildEvent" /\ ~userTokenGen
          /\ Return(p, "rejected", <<E("userTokenGen", 0, {}, "TypeError")>>)
       \/ /\ op = "postBuildEvent" => userTokenGen
          /\ IF i < RETRY_LIMIT /\ Retry(HttpStrategy(op), status)
             THEN Goto(p, "http.attempt", attempt)
             ELSE IF settled = "pending"
             THEN Goto(p, "hung", attempt)
             ELSE Return(p, settled, attempt)
    /\ UNCHANGED <<env, kv, side, qs, cmd>>

\* the causeMessage postBuildEvent is given
CauseMessage(c) ==
    IF c.op = "startPeriodic" THEN "Started by periodic build scheduler"
    ELSE IF "causeMessage" \in DOMAIN c.config THEN c.config.causeMessage
    ELSE "Started by freeze window scheduler"

PostBuildEvent(p) ==
    /\ pc[p] \in {"startPeriodic.postBuildEvent", "startFrozen.postBuildEvent"}
    /\ LET after == IF cmd[p].op = "startPeriodic"
                    THEN AfterPostBuildEvent(cmd[p].config) ELSE "done"
           jobId == JobOf(cmd[p])
           cause == {CauseMessage(cmd[p])} IN
       \/ \* this.userTokenGen is not a function: the TypeError rejects
          /\ ~userTokenGen
          /\ Goto(p, after, <<E("postBuildEvent", jobId, cause, "rejected")>>)
       \/ /\ userTokenGen
          /\ \E attempts \in Attempts :
               LET settled == postRequest(attempts) IN
               Goto(p, IF settled = "pending" THEN "hung" ELSE after,
                    <<E("postBuildEvent", jobId, cause, settled)>>)
    /\ UNCHANGED <<env, kv, side, side, qs,
                         cmd>>

----------------------------------------------------------------------------
(* _startPeriodic *)

\* what _startPeriodic serializes
PeriodicConfig(config) ==
    Stringify([isUpdate |-> FALSE, triggerBuild |-> FALSE]
              @@ (IF config.triggerBuild
                  THEN [causeMessage |-> "Started by periodic build scheduler"]
                       @@ config
                  ELSE config))

StartPeriodicHSet(p) ==
    /\ pc[p] = "startPeriodic.hset"
    /\ LET jobId == cmd[p].config.job.id IN
       \/ /\ periodicBuildConfigs' =
                HSet(periodicBuildConfigs, jobId, PeriodicConfig(cmd[p].config))
          /\ Goto(p, "startPeriodic.enqueueAt",
                  <<E("hset:periodicBuildConfigs", jobId, {}, "ok")>>)
          /\ UNCHANGED <<env, buildConfigs, frozenBuildConfigs, side, qs,
                         cmd>>
       \/ Reject(p, "hset:periodicBuildConfigs", jobId, "StoreError")

StartPeriodicEnqueueAtRetriesAll(p) ==
    /\ pc[p] = "startPeriodic.enqueueAt"
    /\ LET jobId == cmd[p].config.job.id
           next == loc[p].next IN
       \/ /\ IsDuplicate(periodicDelayed, next, jobId)
          /\ Goto(p, "startPeriodic.retry",
                  <<E("enqueueAt:periodicBuilds", jobId, {next}, "duplicate")>>)
          /\ UNCHANGED <<env, kv, side, side, qs,
                         cmd>>
       \/ /\ ~IsDuplicate(periodicDelayed, next, jobId)
          /\ periodicDelayed' = EnqueueAt(periodicDelayed, next, jobId)
          /\ Goto(p, "done", <<E("enqueueAt:periodicBuilds", jobId, {next}, "ok")>>)
          /\ UNCHANGED <<env, kv, side, builds, frozenDelayed, frozenReady,
                         periodicReady, cmd>>

\* the first enqueueAt, on the queue itself: a duplicate is not retried
StartPeriodicEnqueueAt(p) ==
    /\ pc[p] = "startPeriodic.enqueueAt"
    /\ LET jobId == cmd[p].config.job.id
           next == loc[p].next IN
       \/ /\ IsDuplicate(periodicDelayed, next, jobId)
          /\ Goto(p, "done",
                  <<E("enqueueAt:periodicBuilds", jobId, {next}, "duplicate")>>)
          /\ UNCHANGED <<env, kv, side, side, qs,
                         cmd>>
       \/ /\ ~IsDuplicate(periodicDelayed, next, jobId)
          /\ periodicDelayed' = EnqueueAt(periodicDelayed, next, jobId)
          /\ Goto(p, "done", <<E("enqueueAt:periodicBuilds", jobId, {next}, "ok")>>)
          /\ UNCHANGED <<env, kv, side, builds, frozenDelayed, frozenReady,
                         periodicReady, cmd>>
       \/ /\ faultsLeft > 0
          /\ faultsLeft' = faultsLeft - 1
          /\ Goto(p, "startPeriodic.retry",
                  <<E("enqueueAt:periodicBuilds", jobId, {next}, "QueueError")>>)
          /\ UNCHANGED <<now, connected, userTokenGen, callsLeft, kv, side, qs, cmd>>

StartPeriodicRetryRejects(p) ==
    /\ pc[p] = "startPeriodic.retry"
    /\ LET jobId == cmd[p].config.job.id
           next == loc[p].next IN
       \/ /\ IsDuplicate(periodicDelayed, next, jobId)
          /\ Goto(p, "done",
                  <<E("enqueueAt:periodicBuilds", jobId, {next}, "duplicate")>>)
          /\ UNCHANGED <<env, kv, side, qs, cmd>>
       \/ /\ ~IsDuplicate(periodicDelayed, next, jobId)
          /\ periodicDelayed' = EnqueueAt(periodicDelayed, next, jobId)
          /\ Goto(p, "done", <<E("enqueueAt:periodicBuilds", jobId, {next}, "ok")>>)
          /\ UNCHANGED <<env, kv, side, builds, frozenDelayed, frozenReady,
                         periodicReady, cmd>>
       \/ Reject(p, "enqueueAt:periodicBuilds", jobId, "QueueError")

\* the retry through the breaker: whatever it throws is logged
StartPeriodicRetry(p) ==
    /\ pc[p] = "startPeriodic.retry"
    /\ LET jobId == cmd[p].config.job.id
           next == loc[p].next IN
       \/ /\ IsDuplicate(periodicDelayed, next, jobId)
          /\ Goto(p, "done",
                  <<E("enqueueAt:periodicBuilds", jobId, {next}, "duplicate")>>)
          /\ UNCHANGED <<env, kv, side, side, qs,
                         cmd>>
       \/ /\ ~IsDuplicate(periodicDelayed, next, jobId)
          /\ periodicDelayed' = EnqueueAt(periodicDelayed, next, jobId)
          /\ Goto(p, "done", <<E("enqueueAt:periodicBuilds", jobId, {next}, "ok")>>)
          /\ UNCHANGED <<env, kv, side, builds, frozenDelayed, frozenReady,
                         periodicReady, cmd>>
       \/ /\ faultsLeft > 0
          /\ faultsLeft' = faultsLeft - 1
          /\ Goto(p, "done",
                  <<E("enqueueAt:periodicBuilds", jobId, {next}, "QueueError")>>)
          /\ UNCHANGED <<now, connected, userTokenGen, callsLeft, kv, side, qs, cmd>>

----------------------------------------------------------------------------
(* The scheduler and the worker's jobs *)

\* the master scheduler moves a matured delayed item to its ready queue
TransferPeriodic ==
    \E item \in periodicDelayed :
        /\ item[1] <= now
        /\ periodicDelayed' = periodicDelayed \ {item}
        /\ periodicReady' = Append(periodicReady, item[2])
        /\ UNCHANGED <<env, kv, side, procs, builds, frozenDelayed, frozenReady>>

TransferFrozen ==
    \E item \in frozenDelayed :
        /\ item[1] <= now
        /\ frozenDelayed' = frozenDelayed \ {item}
        /\ frozenReady' = Append(frozenReady, item[2])
        /\ UNCHANGED <<env, kv, side, procs, builds, periodicDelayed, periodicReady>>

\* a worker takes the next startDelayed item
WorkStartDelayed(p) ==
    /\ pc[p] \in Idle
    /\ periodicReady # <<>>
    /\ periodicReady' = Tail(periodicReady)
    /\ cmd' = [cmd EXCEPT ![p] = [op |-> "startDelayed", by |-> "worker",
                                  config |-> [jobId |-> Head(periodicReady)]]]
    /\ pc' = [pc EXCEPT ![p] = "startDelayed.hget"]
    /\ trace' = [trace EXCEPT ![p] = <<>>]
    /\ loc' = [loc EXCEPT ![p] = NoLocals]
    /\ result' = [result EXCEPT ![p] = "none"]
    /\ UNCHANGED <<env, kv, side, builds, frozenDelayed, periodicDelayed, frozenReady>>

\* jobs.startDelayed.perform: JSON.parse of a missing entry is null, and
\* Object.assign(null, ...) throws
StartDelayedHGet(p) ==
    /\ pc[p] = "startDelayed.hget"
    /\ LET jobId == cmd[p].config.jobId IN
       \/ /\ ~HHas(periodicBuildConfigs, jobId)
          /\ Return(p, "TypeError",
                    <<E("hget:periodicBuildConfigs", jobId, {}, "null")>>)
          /\ UNCHANGED <<env, kv, side, side, qs,
                         cmd>>
       \/ /\ HHas(periodicBuildConfigs, jobId)
          /\ LET c == [op |-> "startPeriodic", by |-> "worker",
                       config |-> [periodicBuildConfigs[jobId]
                                       EXCEPT !.triggerBuild = TRUE]] IN
               /\ cmd' = [cmd EXCEPT ![p] = c]
               /\ pc' = [pc EXCEPT ![p] = Entry(c)]
               /\ loc' = [loc EXCEPT ![p] = Enter(NoLocals, c, Entry(c))]
               /\ trace' = [trace EXCEPT ![p] =
                     Append(@, E("hget:periodicBuildConfigs", jobId, {}, "ok"))]
          /\ UNCHANGED <<env, kv, side, qs, result>>
       \/ /\ Reject(p, "hget:periodicBuildConfigs", jobId, "StoreError")

\* a worker takes the next startFrozen item
WorkStartFrozen(p) ==
    /\ pc[p] \in Idle
    /\ frozenReady # <<>>
    /\ frozenReady' = Tail(frozenReady)
    /\ cmd' = [cmd EXCEPT ![p] = [op |-> "startFrozen", by |-> "worker",
                                  config |-> [jobId |-> Head(frozenReady)]]]
    /\ pc' = [pc EXCEPT ![p] = "startFrozen.hget"]
    /\ trace' = [trace EXCEPT ![p] = <<>>]
    /\ loc' = [loc EXCEPT ![p] = NoLocals]
    /\ result' = [result EXCEPT ![p] = "none"]
    /\ UNCHANGED <<env, kv, side, builds, frozenDelayed, periodicDelayed, periodicReady>>

\* jobs.startFrozen.perform, then _startFrozen: null.jobName throws
StartFrozenHGet(p) ==
    /\ pc[p] = "startFrozen.hget"
    /\ LET jobId == cmd[p].config.jobId IN
       \/ /\ ~HHas(frozenBuildConfigs, jobId)
          /\ Return(p, "TypeError",
                    <<E("hget:frozenBuildConfigs", jobId, {}, "null")>>)
          /\ UNCHANGED <<env, kv, side, side, qs,
                         cmd>>
       \/ /\ HHas(frozenBuildConfigs, jobId)
          /\ LET config == frozenBuildConfigs[jobId] IN
               /\ cmd' = [cmd EXCEPT ![p].config = config]
               /\ Goto(p, StartFrozenEntry(config),
                       <<E("hget:frozenBuildConfigs", jobId, {}, "ok")>>)
          /\ UNCHANGED <<env, kv, side, qs>>
       \/ /\ Reject(p, "hget:frozenBuildConfigs", jobId, "StoreError")

Tick ==
    /\ now < MaxTime
    /\ now' = now + 1
    /\ UNCHANGED <<connected, userTokenGen, callsLeft, faultsLeft, kv, side, qs, procs>>

----------------------------------------------------------------------------
(* _stop *)

\* config.blockedBy.toString(), undefined when Stop is given no blockedBy
BlockedByText(config) ==
    IF "blockedBy" \in DOMAIN config THEN Csv(config.blockedBy)
    ELSE <<"undefined">>

\* the start item _stop asks the queue to delete
StopItem(config) ==
    [jobName |-> "start", buildId |-> config.buildId, jobId |-> config.jobId,
     blockedBy |-> BlockedByText(config)]

DeleteKey(config) == <<config.jobId, config.buildId>>

StopDel(p) ==
    /\ pc[p] = "stop.del"
    /\ LET item == StopItem(cmd[p].config)
           matching == {i \in 1..Len(builds) : builds[i] = item}
           numDeleted == Cardinality(matching) IN
       \/ /\ builds' = Del(builds, item)
          /\ pc' = [pc EXCEPT ![p] = "stop.set"]
          /\ loc' = [loc EXCEPT ![p].numDeleted = numDeleted]
          /\ trace' = [trace EXCEPT ![p] =
                Append(@, E("del:builds", cmd[p].config.buildId, matching, "ok"))]
          /\ UNCHANGED <<env, kv, side, frozenDelayed, periodicDelayed,
                         frozenReady, periodicReady, cmd, result>>
       \/ Reject(p, "del:builds", cmd[p].config.buildId, "QueueError")

\* SET leaves the key without an expiry (-1), also a key that had one
StopSet(p) ==
    /\ pc[p] = "stop.set"
    /\ LET key == DeleteKey(cmd[p].config) IN
       \/ /\ deleteKeys' = HSet(deleteKeys, key, -1)
          /\ Goto(p, "stop.expire", <<E("set", key, {}, "ok")>>)
          /\ UNCHANGED <<env, kv, timeoutConfigs, qs, cmd>>
       \/ Reject(p, "set", key, "StoreError")

StopExpire(p) ==
    /\ pc[p] = "stop.expire"
    /\ LET key == DeleteKey(cmd[p].config) IN
       \/ /\ deleteKeys' = IF HHas(deleteKeys, key)
                           THEN HSet(deleteKeys, key, EXPIRE_TIME)
                           ELSE deleteKeys
          /\ Goto(p, "stop.enqueue", <<E("expire", key, {}, "ok")>>)
          /\ UNCHANGED <<env, kv, timeoutConfigs, qs, cmd>>
       \/ Reject(p, "expire", key, "StoreError")

StopEnqueueAlwaysStarted(p) ==
    /\ pc[p] = "stop.enqueue"
    /\ LET config == cmd[p].config IN
       \/ /\ builds' = Append(builds,
                [jobName |-> "stop", buildId |-> config.buildId,
                 jobId |-> config.jobId, blockedBy |-> BlockedByText(config),
                 started |-> TRUE])
          /\ Goto(p, "done", <<E("enqueue:builds", config.buildId, {}, "ok")>>)
          /\ UNCHANGED <<env, kv, side, frozenDelayed, periodicDelayed,
                         frozenReady, periodicReady, cmd>>
       \/ Reject(p, "enqueue:builds", config.buildId, "QueueError")

StopEnqueue(p) ==
    /\ pc[p] = "stop.enqueue"
    /\ LET config == cmd[p].config IN
       \/ /\ builds' = Append(builds,
                [jobName |-> "stop", buildId |-> config.buildId,
                 jobId |-> config.jobId, blockedBy |-> BlockedByText(config),
                 started |-> (loc[p].numDeleted = 0)])
          /\ Goto(p, "done", <<E("enqueue:builds", config.buildId, {}, "ok")>>)
          /\ UNCHANGED <<env, kv, side, frozenDelayed, periodicDelayed,
                         frozenReady, periodicReady, cmd>>
       \/ Reject(p, "enqueue:builds", config.buildId, "QueueError")

\* the store drops a key whose time to live has run out
ExpireKey ==
    \E key \in DOMAIN deleteKeys :
        /\ deleteKeys[key] > 0
        /\ deleteKeys' = HDel(deleteKeys, key)
        /\ UNCHANGED <<env, kv, timeoutConfigs, qs, procs>>

----------------------------------------------------------------------------
(* _startTimer and _stopTimer: whatever is thrown is logged *)

SwallowRethrows(p, op, key, err) ==
    /\ faultsLeft > 0
    /\ faultsLeft' = faultsLeft - 1
    /\ Return(p, err, <<E(op, key, {}, err)>>)
    /\ UNCHANGED <<now, connected, userTokenGen, callsLeft, kv, side, qs, cmd>>

\* an awaited call fails inside the try: the catch resolves
Swallow(p, op, key, err) ==
    /\ faultsLeft > 0
    /\ faultsLeft' = faultsLeft - 1
    /\ Goto(p, "done", <<E(op, key, {}, err)>>)
    /\ UNCHANGED <<now, connected, userTokenGen, callsLeft, kv, side, qs, cmd>>

TimerConnectLabels == {"startTimer.connect", "stopTimer.connect"}

TimerConnect(p) ==
    /\ pc[p] \in TimerConnectLabels
    /\ \/ /\ connected' = TRUE
          /\ Goto(p, IF pc[p] = "startTimer.connect"
                     THEN AfterTimerConnect(cmd[p].config) ELSE "stopTimer.hget",
                  <<E("connect", 0, {}, "ok")>>)
          /\ UNCHANGED <<now, userTokenGen, callsLeft, faultsLeft, kv, side, qs, cmd>>
       \/ Swallow(p, "connect", 0, "ConnectError")

\* parseInt(buildTimeout || DEFAULT_BUILD_TIMEOUT, 10)
Timeout(annotation) ==
    IF annotation = 0 THEN DEFAULT_BUILD_TIMEOUT ELSE annotation

TimeoutEntry(config) ==
    [jobId |-> config.jobId, startTime |-> config.startTime,
     timeout |-> Timeout(config.annotations)]

\* the entries under buildId: the one the hget returns, none for null
EntryOf(buildId) ==
    IF HHas(timeoutConfigs, buildId) THEN {timeoutConfigs[buildId]} ELSE {}

StartTimerHGetThenHSet(p) ==
    /\ pc[p] = "startTimer.hget"
    /\ LET buildId == cmd[p].config.buildId IN
       \/ /\ Goto(p, "startTimer.hset",
                  <<E("hget:timeoutConfigs", buildId, EntryOf(buildId), "ok")>>)
          /\ UNCHANGED <<env, kv, side, qs, cmd>>
       \/ Swallow(p, "hget:timeoutConfigs", buildId, "StoreError")

StartTimerHGet(p) ==
    /\ pc[p] = "startTimer.hget"
    /\ LET buildId == cmd[p].config.buildId IN
       \/ /\ Goto(p, IF HHas(timeoutConfigs, buildId) THEN "done"
                     ELSE "startTimer.hset",
                  <<E("hget:timeoutConfigs", buildId, EntryOf(buildId), "ok")>>)
          /\ UNCHANGED <<env, kv, side, qs, cmd>>
       \/ Swallow(p, "hget:timeoutConfigs", buildId, "StoreError")

StartTimerHSet(p) ==
    /\ pc[p] = "startTimer.hset"
    /\ LET buildId == cmd[p].config.buildId IN
       \/ /\ timeoutConfigs' =
                HSet(timeoutConfigs, buildId, TimeoutEntry(cmd[p].config))
          /\ Goto(p, "done",
                  <<E("hset:timeoutConfigs", buildId, EntryOf(buildId), "ok")>>)
          /\ UNCHANGED <<env, kv, deleteKeys, qs, cmd>>
       \/ Swallow(p, "hset:timeoutConfigs", buildId, "StoreError")

StopTimerHGet(p) ==
    /\ pc[p] = "stopTimer.hget"
    /\ LET buildId == cmd[p].config.buildId IN
       \/ /\ Goto(p, IF HHas(timeoutConfigs, buildId) THEN "stopTimer.hdel"
                     ELSE "done",
                  <<E("hget:timeoutConfigs", buildId, EntryOf(buildId), "ok")>>)
          /\ UNCHANGED <<env, kv, side, qs, cmd>>
       \/ Swallow(p, "hget:timeoutConfigs", buildId, "StoreError")

StopTimerHDelAll(p) ==
    /\ pc[p] = "stopTimer.hdel"
    /\ LET buildId == cmd[p].config.buildId IN
       \/ /\ timeoutConfigs' = <<>>
          /\ Goto(p, "done",
                  <<E("hdel:timeoutConfigs", buildId, EntryOf(buildId), "ok")>>)
          /\ UNCHANGED <<env, kv, deleteKeys, qs, cmd>>
       \/ Swallow(p, "hdel:timeoutConfigs", buildId, "StoreError")

StopTimerHDel(p) ==
    /\ pc[p] = "stopTimer.hdel"
    /\ LET buildId == cmd[p].config.buildId IN
       \/ /\ timeoutConfigs' = HDel(timeoutConfigs, buildId)
          /\ Goto(p, "done",
                  <<E("hdel:timeoutConfigs", buildId, EntryOf(buildId), "ok")>>)
          /\ UNCHANGED <<env, kv, deleteKeys, qs, cmd>>
       \/ Swallow(p, "hdel:timeoutConfigs", buildId, "StoreError")

----------------------------------------------------------------------------
(* The specifications *)

InitButTimers ==
    /\ now = 0
    /\ connected = FALSE
    /\ userTokenGen = FALSE
    /\ callsLeft = MaxCalls
    /\ buildConfigs = <<>>
    /\ frozenBuildConfigs = <<>>
    /\ periodicBuildConfigs = <<>>
    /\ deleteKeys = <<>>
    /\ builds = <<>>
    /\ frozenDelayed = {}
    /\ periodicDelayed = {}
    /\ frozenReady = <<>>
    /\ periodicReady = <<>>
    /\ pc = [p \in Procs |-> "idle"]
    /\ cmd = [p \in Procs |-> NoCommand]
    /\ loc = [p \in Procs |-> NoLocals]
    /\ trace = [p \in Procs |-> <<>>]
    /\ result = [p \in Procs |-> "none"]

StartStep(p) ==
    \/ StopFrozenDelDelayed(p)
    \/ StopFrozenHDel(p)
    \/ StartUpdateBuildStatus(p)
    \/ StartDelDelayed(p)
    \/ StartHSetFrozen(p)
    \/ StartEnqueueAt(p)
    \/ StartHSet(p)
    \/ StartEnqueue(p)
    \/ StartBuildUpdate(p)
    \/ WorkStartFrozen(p)
    \/ StartFrozenHGet(p)

PeriodicStep(p) ==
    \/ StopPeriodicDelDelayed(p)
    \/ StopPeriodicHDel(p)
    \/ StartPeriodicHSet(p)
    \/ StartPeriodicEnqueueAt(p)
    \/ StartPeriodicRetry(p)
    \/ WorkStartDelayed(p)
    \/ StartDelayedHGet(p)

InitStore == InitButTimers /\ timeoutConfigs = <<>>

Quiet == \A p \in Procs : pc[p] \in Idle \cup {"hung"}

InitSeq == InitStore /\ faultsLeft = MaxFaults

\* Start and StopFrozen, one command or job at a time, with failing store,
\* queue and connect calls
NextStart ==
    \/ \E c \in StartCommands \cup StopFrozenCommands : Quiet /\ Call(1, c)
    \/ Connect(1)
    \/ StartStep(1)
    \/ PostBuildEvent(1)
    \/ TransferFrozen
    \/ Tick

SpecStart == InitSeq /\ [][NextStart]_vars

\* StartPeriodic and StopPeriodic, one command or job at a time, with failing
\* store, queue and connect calls
NextPeriodic ==
    \/ \E c \in StartPeriodicCommands \cup StopPeriodicCommands :
          Quiet /\ Call(1, c)
    \/ Connect(1)
    \/ PeriodicStep(1)
    \/ PostBuildEvent(1)
    \/ TransferPeriodic
    \/ Tick

SpecPeriodic == InitSeq /\ [][NextPeriodic]_vars

\* two invocations about one job, interleaving at every awaited call
ConcurrentCommands ==
    {c \in Commands :
        /\ JobOf(c) = 1
        /\ c.op = "start" =>
              /\ c.config.jobState = "ENABLED" /\ ~c.config.jobArchived
              /\ ~ForceStart(c.config.causeMessage)
        /\ c.op = "startPeriodic" =>
              /\ c.config.job.state = "ENABLED" /\ ~c.config.job.archived
              /\ c.config.job.buildPeriodically # <<>>
              /\ ~c.config.triggerBuild}

Init == InitStore /\ faultsLeft = 0

NextStartConc ==
    \/ \E p \in Procs, c \in ConcurrentCommands :
          c.op \in {"start", "stopFrozen"} /\ Call(p, c)
    \/ \E p \in Procs : Connect(p) \/ StartStep(p) \/ PostBuildEvent(p)
    \/ TransferFrozen
    \/ Tick

SpecStartConc == Init /\ [][NextStartConc]_vars

NextPeriodicConc ==
    \/ \E p \in Procs, c \in ConcurrentCommands :
          c.op \in {"startPeriodic", "stopPeriodic"} /\ Call(p, c)
    \/ \E p \in Procs :
          \/ Connect(p)
          \/ StopPeriodicDelDelayed(p)
          \/ StopPeriodicHDel(p)
          \/ StartPeriodicHSet(p)
          \/ StartPeriodicEnqueueAt(p)
          \/ WorkStartDelayed(p)
          \/ StartDelayedHGet(p)
          \/ PostBuildEvent(p)
    \/ TransferPeriodic
    \/ Tick

SpecPeriodicConc == Init /\ [][NextPeriodicConc]_vars

\* the ready path of _start, for the start items Stop may find on builds
ReadyStep(p) ==
    \/ StopFrozenDelDelayed(p)
    \/ StopFrozenHDel(p)
    \/ StartHSet(p)
    \/ StartEnqueue(p)
    \/ StartBuildUpdate(p)

StopStep(p) ==
    \/ StopDel(p)
    \/ StopSet(p)
    \/ StopExpire(p)
    \/ StopEnqueue(p)

TimerStep(p) ==
    \/ TimerConnect(p)
    \/ StartTimerHGet(p)
    \/ StartTimerHSet(p)
    \/ StopTimerHGet(p)
    \/ StopTimerHDel(p)

ReadyCommands ==
    {c \in StartCommands :
        /\ c.config.freezeWindows = <<>>
        /\ c.config.jobState = "ENABLED" /\ ~c.config.jobArchived
        /\ ~ForceStart(c.config.causeMessage)}

\* Stop, among Starts outside freeze windows, one command at a time, with
\* failing store, queue and connect calls
NextStop ==
    \/ \E c \in ReadyCommands \cup StopCommands : Quiet /\ Call(1, c)
    \/ Connect(1)
    \/ ReadyStep(1)
    \/ StopStep(1)
    \/ ExpireKey

SpecStop == InitSeq /\ [][NextStop]_vars

\* StartTimer and StopTimer, one command at a time, with failing store and
\* connect calls
NextTimer ==
    \/ \E c \in StartTimerCommands \cup StopTimerCommands : Quiet /\ Call(1, c)
    \/ TimerStep(1)

\* the timers earlier StartTimer calls for build 2 may have left
TimerStores ==
    {<<>>} \cup {(2 :> TimeoutEntry(c.config)) :
                    c \in {d \in StartTimerCommands : d.config.buildId = 2}}

InitTimer ==
    /\ InitButTimers
    /\ timeoutConfigs \in TimerStores
    /\ faultsLeft = MaxFaults

SpecTimer == InitTimer /\ [][NextTimer]_vars

\* two timer commands about one build, interleaving at every awaited call
NextTimerConc ==
    \/ \E p \in Procs, c \in StartTimerCommands \cup StopTimerCommands :
          c.config.buildId = 1 /\ Call(p, c)
    \/ \E p \in Procs : TimerStep(p)

SpecTimerConc == Init /\ [][NextTimerConc]_vars

\* one command of each kind about job 1 and build 1
SurfaceCommands ==
    {c \in StartCommands :
        /\ c.config.jobId = 1 /\ ~ForceStart(c.config.causeMessage)
        /\ c.config.freezeWindows \in {<<>>, <<{0}>>}
        /\ ~c.config.jobArchived}
    \cup {c \in StartPeriodicCommands :
            /\ c.config.job.id = 1 /\ c.config.job.state = "ENABLED"
            /\ ~c.config.job.archived
            /\ c.config.job.buildPeriodically = <<"H", "*">>}
    \cup {c \in StopCommands \cup StopPeriodicCommands \cup StopFrozenCommands :
            c.config.jobId = 1}
    \cup {c \in StartTimerCommands :
            /\ c.config.buildId = 1 /\ c.config.startTime = 0
            /\ c.config.annotations = 0}
    \cup {c \in StopTimerCommands : c.config.buildId = 1}

\* every command of the executor, one at a time, with failing store, queue
\* and connect calls
NextCommands ==
    \/ \E c \in SurfaceCommands : Quiet /\ Call(1, c)
    \/ Connect(1)
    \/ StopFrozenDelDelayed(1)
    \/ StopFrozenHDel(1)
    \/ StartUpdateBuildStatus(1)
    \/ StartDelDelayed(1)
    \/ StartHSetFrozen(1)
    \/ StartEnqueueAt(1)
    \/ StartHSet(1)
    \/ StartEnqueue(1)
    \/ StartBuildUpdate(1)
    \/ StopStep(1)
    \/ StopPeriodicDelDelayed(1)
    \/ StopPeriodicHDel(1)
    \/ PostBuildEvent(1)
    \/ StartPeriodicHSet(1)
    \/ StartPeriodicEnqueueAt(1)
    \/ StartPeriodicRetry(1)
    \/ TimerStep(1)

SpecCommands == InitSeq /\ [][NextCommands]_vars

\* what sets this.userTokenGen and nothing else: a StartPeriodic for a job
\* that has no cron
CachesTokenGen == StartPeriodicCommand(2, <<"ENABLED", FALSE>>, <<>>, FALSE, FALSE)

\* the frozen builds of job 1: Start, the scheduler, the startFrozen handler
\* and StartFrozen itself, in a process that may have cached userTokenGen
NextFrozen ==
    \/ \E c \in {c \in StartCommands : c.config.jobId = 1}
                 \cup StartFrozenCommands \cup {CachesTokenGen} :
          Quiet /\ Call(1, c)
    \/ Connect(1)
    \/ StartStep(1)
    \/ PostBuildEvent(1)
    \/ TransferFrozen
    \/ Tick

SpecFrozen == InitSeq /\ [][NextFrozen]_vars

\* the periodic builds of job 1: StartPeriodic by the callers, the scheduler
\* and the startDelayed handler, with no failing store or queue call
ChainCommands ==
    {StartPeriodicCommand(1, <<"ENABLED", FALSE>>, <<"H", "*">>, u, FALSE) :
        u \in BOOLEAN}

WorkerStep(p) ==
    \/ WorkStartDelayed(p)
    \/ StartDelayedHGet(p)
    \/ StopPeriodicDelDelayed(p)
    \/ StopPeriodicHDel(p)
    \/ PostBuildEvent(p)
    \/ Connect(p)
    \/ StartPeriodicHSet(p)
    \/ StartPeriodicEnqueueAt(p)

NextChain ==
    \/ \E c \in ChainCommands : Quiet /\ Call(1, c)
    \/ WorkerStep(1)
    \/ TransferPeriodic
    \/ Tick

\* the scheduler keeps polling the delayed index and the worker keeps
\* polling its queue and running the handler it started
SpecChain ==
    /\ Init
    /\ [][NextChain]_vars
    /\ WF_vars(TransferPeriodic)
    /\ WF_vars(WorkerStep(1))

\* Start of job 1 at any instant, under every kind of freeze windows, with no
\* failing call
NextFreeze ==
    \/ \E c \in FreezeCommands : Quiet /\ Call(1, c)
    \/ Connect(1)
    \/ StartStep(1)
    \/ PostBuildEvent(1)
    \/ TransferFrozen
    \/ Tick

SpecFreeze == Init /\ [][NextFreeze]_vars

\* cron.transform, by two callers at any time
NextCron ==
    \/ \E c \in TransformCommands : Call(1, c)
    \/ \E c \in TransformAgainCommands : Call(2, c)
    \/ CronTransformStep(1)
    \/ CronTransformStep(2)
    \/ Tick

SpecCron == Init /\ [][NextCron]_vars

\* the two requests to the API, for every way the API may answer
NextHttp ==
    \/ \E c \in HttpRequests \cup {CachesTokenGen} : Quiet /\ Call(1, c)
    \/ HttpAttempt(1)

SpecHttp == Init /\ [][NextHttp]_vars

\* every command of the executor, possibly issued twice in a row, with no
\* failing call and nothing else at work in between
NextTwice ==
    \/ \E c \in SurfaceCommands : Quiet /\ Call(1, c)
    \/ Repeat(1)
    \/ Connect(1)
    \/ StopFrozenDelDelayed(1)
    \/ StopFrozenHDel(1)
    \/ StartUpdateBuildStatus(1)
    \/ StartDelDelayed(1)
    \/ StartHSetFrozen(1)
    \/ StartEnqueueAt(1)
    \/ StartHSet(1)
    \/ StartEnqueue(1)
    \/ StartBuildUpdate(1)
    \/ StopStep(1)
    \/ StopPeriodicDelDelayed(1)
    \/ StopPeriodicHDel(1)
    \/ PostBuildEvent(1)
    \/ StartPeriodicHSet(1)
    \/ StartPeriodicEnqueueAt(1)
    \/ TimerStep(1)

SpecTwice == Init /\ [][NextTwice]_vars

----------------------------------------------------------------------------
(* What the claims speak of *)

Returned(p) == pc[p] = "done"
Succeeded(p) == pc[p] = "done" /\ result[p] = "ok"
IsStart(p) == cmd[p].op = "start"
IsStartPeriodic(p) == cmd[p].op = "startPeriodic"

\* the Start of p decided inside a freeze window: the evaluator returned t' > now
Enabled(config) == config.jobState = "ENABLED" /\ config.jobArchived = FALSE
InsideWindow(p) == Enabled(cmd[p].config) /\ loc[p].currentTime > loc[p].origTime
Tagged(p) == \E i \in 1..Len(cmd[p].config.causeMessage) :
                cmd[p].config.causeMessage[i] = "[force start]"

\* the fields of a Start config that are neither build, causeMessage nor a function
Payload(config) ==
    [k \in {"buildId", "jobId", "jobState", "jobArchived", "blockedBy",
            "freezeWindows"} |-> config[k]]

C2_ForceStartTakesReadyPath ==
    \A p \in Procs :
        (IsStart(p) /\ Succeeded(p) /\ InsideWindow(p) /\ Tagged(p)) =>
            LET config == cmd[p].config IN
            /\ HHas(buildConfigs, config.buildId)
            /\ buildConfigs[config.buildId].jobId = config.jobId
            /\ Cardinality(Calls(p, "enqueue:builds")) = 1
            /\ \E i \in 1..Len(builds) :
                 builds[i] = [jobName |-> "start", buildId |-> config.buildId,
                              jobId |-> config.jobId,
                              blockedBy |-> IF config.jobId = 1 THEN <<"1">>
                                            ELSE <<"2", ",", "1">>]
            /\ ~HHas(frozenBuildConfigs, config.jobId)
            /\ DelayedAt(frozenDelayed, config.jobId) = {}
            /\ Calls(p, "hset:frozenBuildConfigs") = {}
            /\ Calls(p, "enqueueAt:frozenBuilds") = {}
            /\ Calls(p, "updateBuildStatus") = {}

C2_Witness ==
    \E p \in Procs :
        /\ IsStart(p) /\ Succeeded(p) /\ InsideWindow(p) /\ Tagged(p)
        /\ Calls(p, "enqueue:builds") # {}

\* the calls of p named in ops that come before its i-th call
Before(p, i, ops) == {k \in 1..(i - 1) : trace[p][k].op \in ops}
OkBefore(p, i, op) ==
    \E k \in Before(p, i, {op}) : trace[p][k].ret \in {"ok", "0", "1"}

\* C3: within one Start both calls of StopFrozen have completed before any call
\* of the frozen or the ready path is made, HSet(buildConfigs) has completed
\* before Enqueue(builds, start), and buildConfigs holds the build's entry when
\* the start item is enqueued.
C3_StartOrder ==
    \A p \in Procs : IsStart(p) =>
        /\ \A i \in 1..Len(trace[p]) :
             /\ trace[p][i].op \in {"updateBuildStatus", "hset:frozenBuildConfigs",
                                    "enqueueAt:frozenBuilds", "hset:buildConfigs",
                                    "enqueue:builds"} =>
                   \E m \in Before(p, i, {"hdel:frozenBuildConfigs"}) :
                       /\ trace[p][m].ret \in {"0", "1"}
                       /\ OkBefore(p, m, "delDelayed:frozenBuilds")
             /\ trace[p][i].op = "enqueue:builds" =>
                   OkBefore(p, i, "hset:buildConfigs")
        /\ (pc[p] = "start.enqueue" \/ Calls(p, "enqueue:builds") # {}) =>
              HHas(buildConfigs, cmd[p].config.buildId)

C3_Witness ==
    \E p \in Procs :
        /\ IsStart(p) /\ Succeeded(p)
        /\ \E i \in Calls(p, "enqueue:builds") : trace[p][i].ret = "ok"
        /\ \E i \in 1..Len(builds) : builds[i].buildId = cmd[p].config.buildId

\* C4: each jobId has at most one startDelayed item in the periodicBuilds
\* delayed index and at most one startFrozen item in the frozenBuilds delayed
\* index, in every reachable state.
C4_AtMostOneDelayedItem ==
    \A jobId \in JobIds :
        /\ Cardinality(DelayedAt(periodicDelayed, jobId)) <= 1
        /\ Cardinality(DelayedAt(frozenDelayed, jobId)) <= 1

\* the first call of p named op, 0 when there is none
First(p, op) ==
    IF Calls(p, op) = {} THEN 0
    ELSE CHOOSE i \in Calls(p, op) : \A k \in Calls(p, op) : i <= k

\* the items of jobId in index, unless the scheduler has since moved the one at ts
Scheduled(index, jobId, ts) ==
    IF ts <= now /\ DelayedAt(index, jobId) = {} THEN {ts}
    ELSE DelayedAt(index, jobId)

\* C5: a successful Start inside a freeze window, whether or not an earlier Start
\* of the job left a startFrozen item at the same t', leaves exactly one
\* startFrozen item for the job, scheduled at t'.
C5_FrozenStartsCollapse ==
    \A p \in Procs :
        (IsStart(p) /\ Succeeded(p) /\ InsideWindow(p) /\ ~Tagged(p)) =>
            /\ Scheduled(frozenDelayed, cmd[p].config.jobId, loc[p].currentTime)
                  = {loc[p].currentTime}
            /\ Cardinality(Calls(p, "enqueueAt:frozenBuilds")) = 1

\* the Start found the item an earlier Start had scheduled at the same t'
C5_Witness ==
    \E p \in Procs :
        /\ IsStart(p) /\ Succeeded(p) /\ InsideWindow(p) /\ ~Tagged(p)
        /\ trace[p][First(p, "delDelayed:frozenBuilds")].at = {loc[p].currentTime}
        /\ DelayedAt(frozenDelayed, cmd[p].config.jobId) = {loc[p].currentTime}

\* p is the second of two commands, and its EnqueueAt met the item of the first
SecondOfTwo(p) ==
    /\ IsStartPeriodic(p) /\ cmd[p].by = "caller" /\ Returned(p)
    /\ callsLeft = MaxCalls - 2
    /\ First(p, "enqueueAt:periodicBuilds") # 0
    /\ trace[p][First(p, "enqueueAt:periodicBuilds")].ret = "duplicate"

\* C6: the second of two consecutive StartPeriodic calls with the same jobId and
\* the same next firing returns success after a single EnqueueAt attempt, and
\* the periodicBuilds delayed index holds exactly one startDelayed item for the
\* job, at that firing.
C6_DuplicateIsSuccess ==
    \A p \in Procs :
        SecondOfTwo(p) =>
            /\ result[p] = "ok"
            /\ Cardinality(Calls(p, "enqueueAt:periodicBuilds")) = 1
            /\ Scheduled(periodicDelayed, cmd[p].config.job.id, loc[p].next)
                  = {loc[p].next}

C6_Witness ==
    \E p \in Procs :
        /\ SecondOfTwo(p)
        /\ DelayedAt(periodicDelayed, cmd[p].config.job.id) = {loc[p].next}

\* C7: no command returns a failure to its caller because EnqueueAt reported
\* DuplicateScheduled, also when two commands for one jobId interleave.
C7_DuplicateNeverFails ==
    \A p \in Procs :
        (Returned(p) /\ \E i \in 1..Len(trace[p]) : trace[p][i].ret = "duplicate")
            => result[p] = "ok"

\* C8: after StopPeriodic({jobId}) has succeeded, whatever StartPeriodic stored
\* and scheduled before, periodicBuildConfigs has no entry for jobId and the
\* periodicBuilds delayed index no startDelayed item for it.
C8_StopPeriodicClears ==
    \A p \in Procs :
        (cmd[p].op = "stopPeriodic" /\ Succeeded(p)) =>
            /\ ~HHas(periodicBuildConfigs, cmd[p].config.jobId)
            /\ DelayedAt(periodicDelayed, cmd[p].config.jobId) = {}

\* the StopPeriodic removed what a StartPeriodic had stored and scheduled
C8_Witness ==
    \E p \in Procs :
        /\ cmd[p].op = "stopPeriodic" /\ Succeeded(p)
        /\ trace[p][First(p, "delDelayed:periodicBuilds")].at # {}
        /\ trace[p][First(p, "hdel:periodicBuildConfigs")].ret = "1"

\* C9: within one StartPeriodic with isUpdate, the DeleteDelayed and the HDel of
\* StopPeriodic have completed before HSet(periodicBuildConfigs) or EnqueueAt is
\* called; and in every StartPeriodic HSet(periodicBuildConfigs) has completed
\* before EnqueueAt(startDelayed) is called.
C9_StartPeriodicOrder ==
    \A p \in Procs : IsStartPeriodic(p) =>
        \A i \in 1..Len(trace[p]) :
            /\ (cmd[p].by = "caller" /\ cmd[p].config.isUpdate
                  /\ trace[p][i].op \in {"hset:periodicBuildConfigs",
                                         "enqueueAt:periodicBuilds"}) =>
                  \E m \in Before(p, i, {"hdel:periodicBuildConfigs"}) :
                      /\ trace[p][m].ret \in {"0", "1"}
                      /\ OkBefore(p, m, "delDelayed:periodicBuilds")
            /\ trace[p][i].op = "enqueueAt:periodicBuilds" =>
                  OkBefore(p, i, "hset:periodicBuildConfigs")

C9_Witness ==
    \E p \in Procs :
        /\ IsStartPeriodic(p) /\ Succeeded(p)
        /\ cmd[p].by = "caller" /\ cmd[p].config.isUpdate
        /\ trace[p][First(p, "delDelayed:periodicBuilds")].at # {}
        /\ \E i \in Calls(p, "enqueueAt:periodicBuilds") : trace[p][i].ret = "ok"

\* the store, queue and connect calls of p all succeeded
NoFault(p) ==
    \A i \in 1..Len(trace[p]) :
        trace[p][i].ret \notin {"ConnectError", "StoreError", "QueueError"}

\* the PostEvent of p failed after its retries
PostEventFailed(p) ==
    \E i \in Calls(p, "postBuildEvent") : trace[p][i].ret # "resolved"

\* p has nothing left to do: it returned, or it waits for PostEvent for ever
Ended(p) == pc[p] \in {"done", "hung"}

\* C10: a StartPeriodic with triggerBuild for an ENABLED, non-archived job with
\* a cron whose PostEvent failed after its retries still stores the
\* PeriodicConfig, schedules the next startDelayed firing and returns success.
C10_PostEventFailureSwallowed ==
    \A p \in Procs :
        (/\ IsStartPeriodic(p) /\ cmd[p].by = "caller"
         /\ cmd[p].config.triggerBuild /\ Schedules(cmd[p].config)
         /\ PostEventFailed(p) /\ Ended(p) /\ NoFault(p)) =>
            /\ Succeeded(p)
            /\ Calls(p, "hset:periodicBuildConfigs") # {}
            /\ Calls(p, "enqueueAt:periodicBuilds") # {}

\* the EnqueueAt calls of p, in the order it made them
EnqueueAts(p) == Calls(p, "enqueueAt:periodicBuilds")
FirstEnqueueAt(p) == trace[p][First(p, "enqueueAt:periodicBuilds")]

\* C11: in StartPeriodic a duplicate report of EnqueueAt ends the command with
\* success after that one attempt; any other failure of the first EnqueueAt is
\* followed by exactly one further EnqueueAt with the same timestamp and
\* arguments, and StartPeriodic returns success whatever that one did.
C11_EnqueueAtRetriedOnce ==
    \A p \in Procs :
        (IsStartPeriodic(p) /\ Returned(p) /\ EnqueueAts(p) # {}) =>
            /\ result[p] = "ok"
            /\ FirstEnqueueAt(p).ret \in {"ok", "duplicate"} =>
                  Cardinality(EnqueueAts(p)) = 1
            /\ FirstEnqueueAt(p).ret = "QueueError" =>
                  /\ Cardinality(EnqueueAts(p)) = 2
                  /\ \A i \in EnqueueAts(p) :
                        /\ trace[p][i].key = FirstEnqueueAt(p).key
                        /\ trace[p][i].at = FirstEnqueueAt(p).at

\* both the first EnqueueAt and its retry failed
C11_Witness ==
    \E p \in Procs :
        /\ IsStartPeriodic(p) /\ Succeeded(p)
        /\ Cardinality(EnqueueAts(p)) = 2
        /\ \A i \in EnqueueAts(p) : trace[p][i].ret = "QueueError"

\* C12: StartPeriodic for a job without a cron, not ENABLED or archived calls
\* neither HSet(periodicBuildConfigs) nor EnqueueAt(periodicBuilds); with
\* isUpdate it has, once it succeeded, deleted the delayed item and the config
\* of the job.
C12_UnscheduledJobStoresNothing ==
    \A p \in Procs :
        (IsStartPeriodic(p) /\ ~( /\ cmd[p].config.job.buildPeriodically # <<>>
                                  /\ cmd[p].config.job.state = "ENABLED"
                                  /\ ~cmd[p].config.job.archived )) =>
            /\ Calls(p, "hset:periodicBuildConfigs") = {}
            /\ EnqueueAts(p) = {}
            /\ (cmd[p].config.isUpdate /\ Succeeded(p)) =>
                  /\ \E i \in Calls(p, "delDelayed:periodicBuilds") :
                        trace[p][i].ret = "ok"
                  /\ \E i \in Calls(p, "hdel:periodicBuildConfigs") :
                        trace[p][i].ret \in {"0", "1"}
                  /\ ~HHas(periodicBuildConfigs, cmd[p].config.job.id)
                  /\ DelayedAt(periodicDelayed, cmd[p].config.job.id) = {}

\* a disabled or archived job is updated: what it had scheduled is removed
C12_Witness ==
    \E p \in Procs :
        /\ IsStartPeriodic(p) /\ Succeeded(p) /\ cmd[p].config.isUpdate
        /\ cmd[p].config.job.buildPeriodically # <<>>
        /\ (cmd[p].config.job.state # "ENABLED" \/ cmd[p].config.job.archived)
        /\ trace[p][First(p, "delDelayed:periodicBuilds")].at # {}
        /\ trace[p][First(p, "hdel:periodicBuildConfigs")].ret = "1"

IsStop(p) == cmd[p].op = "stop"

\* C13: every Stop has written the key deleted_{jobId}_{buildId} before it
\* enqueues its stop item, and a Stop that succeeded has enqueued exactly one
\* stop item, the last on builds, whose started says that Delete(builds, start)
\* removed nothing.
C13_StopMarksThenEnqueues ==
    \A p \in Procs : IsStop(p) =>
        /\ \A i \in Calls(p, "enqueue:builds") :
              /\ OkBefore(p, i, "set")
              /\ OkBefore(p, i, "del:builds")
        /\ Succeeded(p) =>
              /\ Cardinality(Calls(p, "enqueue:builds")) = 1
              /\ Len(builds) > 0
              /\ builds[Len(builds)].jobName = "stop"
              /\ builds[Len(builds)].buildId = cmd[p].config.buildId
              /\ builds[Len(builds)].jobId = cmd[p].config.jobId
              /\ builds[Len(builds)].started =
                    (trace[p][First(p, "del:builds")].at = {})

\* the Stop removed a queued start item: started is false
C13_Witness ==
    \E p \in Procs :
        /\ IsStop(p) /\ Succeeded(p)
        /\ trace[p][First(p, "del:builds")].at # {}
        /\ builds[Len(builds)].jobName = "stop"
        /\ builds[Len(builds)].started = FALSE

\* C14: once a Stop has ended, with success or with a failure, the key
\* deleted_{jobId}_{buildId} is not in the store without an expiry: it is set
\* to expire within EXPIRE_TIME seconds, or it is gone.
C14_AbortMarkerExpires ==
    \A p \in Procs :
        (IsStop(p) /\ Returned(p)) =>
            \/ ~HHas(deleteKeys, DeleteKey(cmd[p].config))
            \/ /\ deleteKeys[DeleteKey(cmd[p].config)] > 0
               /\ deleteKeys[DeleteKey(cmd[p].config)] <= EXPIRE_TIME

IsStartTimer(p) == cmd[p].op = "startTimer"
IsStopTimer(p) == cmd[p].op = "stopTimer"

\* what the HGet of p found under the buildId: a set with the entry, or empty
Found(p) == trace[p][First(p, "hget:timeoutConfigs")].at
HasRead(p) == First(p, "hget:timeoutConfigs") # 0

\* C15: a StartTimer for a RUNNING build whose HGet finds the TimeoutEntry an
\* earlier StartTimer stored calls no HSet, returns success and leaves that
\* entry as it was, whatever its own startTime and timeout.
C15_SecondStartTimerIsNoOp ==
    \A p \in Procs :
        (IsStartTimer(p) /\ HasRead(p) /\ Found(p) # {}) =>
            /\ Calls(p, "hset:timeoutConfigs") = {}
            /\ HHas(timeoutConfigs, cmd[p].config.buildId)
            /\ timeoutConfigs[cmd[p].config.buildId] \in Found(p)
            /\ pc[p] = "done" /\ result[p] = "ok"

\* the second StartTimer came with another startTime and another timeout
C15_Witness ==
    \E p \in Procs :
        /\ IsStartTimer(p) /\ Succeeded(p) /\ HasRead(p) /\ Found(p) # {}
        /\ cmd[p].config.buildId = 1
        /\ timeoutConfigs[1].startTime # cmd[p].config.startTime
        /\ timeoutConfigs[1].timeout # Timeout(cmd[p].config.annotations)

\* C16: no StartTimer writes the TimeoutEntry of a buildId that has one: every
\* HSet(timeoutConfigs, buildId) finds no entry under buildId.
C16_TimeoutEntryWrittenOnce ==
    \A p \in Procs :
        \A i \in Calls(p, "hset:timeoutConfigs") :
            trace[p][i].ret = "ok" => trace[p][i].at = {}

\* C17: a step of StartTimer for a build that is not RUNNING leaves
\* timeoutConfigs as it is and ends in success; the HGet of StopTimer that
\* finds no entry ends StopTimer in success with timeoutConfigs as it is; the
\* HDel of StopTimer removes the entry of its buildId and no other.
C17_TimerFrame ==
    [][\A p \in Procs :
        /\ (cmd'[p].op = "startTimer" /\ cmd'[p].config.buildStatus # "RUNNING"
              /\ pc'[p] # pc[p]) =>
              /\ timeoutConfigs' = timeoutConfigs
              /\ pc'[p] \in {"startTimer.connect", "done"}
              /\ pc'[p] = "done" => result'[p] = "ok"
        /\ (IsStopTimer(p) /\ pc[p] = "stopTimer.hget" /\ pc'[p] # pc[p]
              /\ ~HHas(timeoutConfigs, cmd[p].config.buildId)) =>
              /\ timeoutConfigs' = timeoutConfigs
              /\ pc'[p] = "done" /\ result'[p] = "ok"
        /\ (IsStopTimer(p) /\ pc[p] = "stopTimer.hdel" /\ pc'[p] # pc[p]
              /\ trace'[p][Len(trace'[p])].ret = "ok") =>
              /\ cmd[p].config.buildId \in DOMAIN timeoutConfigs
              /\ DOMAIN timeoutConfigs' =
                    DOMAIN timeoutConfigs \ {cmd[p].config.buildId}
              /\ \A b \in DOMAIN timeoutConfigs' :
                    timeoutConfigs'[b] = timeoutConfigs[b]
              /\ pc'[p] = "done" /\ result'[p] = "ok"
      ]_vars

\* a StopTimer removed the entry of build 1 and left that of build 2
C17_Witness ==
    \E p \in Procs :
        /\ IsStopTimer(p) /\ Succeeded(p) /\ cmd[p].config.buildId = 1
        /\ \E i \in Calls(p, "hdel:timeoutConfigs") :
              trace[p][i].ret = "ok" /\ trace[p][i].at # {}
        /\ DOMAIN timeoutConfigs = {2}

Failed(p) ==
    \E i \in 1..Len(trace[p]) :
        trace[p][i].ret \in {"ConnectError", "StoreError", "QueueError"}

\* C18: StartTimer and StopTimer return success whenever they return, also
\* when their Connect, HGet, HSet or HDel failed.
C18_TimersSwallowErrors ==
    \A p \in Procs :
        ((IsStartTimer(p) \/ IsStopTimer(p)) /\ Returned(p)) => result[p] = "ok"

\* the HSet of a StartTimer failed
C18_Witness ==
    \E p \in Procs :
        /\ IsStartTimer(p) /\ Returned(p) /\ Failed(p)
        /\ \E i \in Calls(p, "hset:timeoutConfigs") : trace[p][i].ret = "StoreError"

\* the commands whose errors the caller is to see
Surfacing == {"start", "stop", "stopPeriodic", "stopFrozen"}

\* C19: a Start, Stop, StopPeriodic or StopFrozen in which Connect, a store
\* operation or a queue operation failed returns that failure to its caller.
C19_FailuresSurface ==
    \A p \in Procs :
        (cmd[p].op \in Surfacing /\ cmd[p].by = "caller") =>
            \A i \in 1..Len(trace[p]) :
                trace[p][i].ret \in {"ConnectError", "StoreError", "QueueError"} =>
                    /\ i = Len(trace[p])
                    /\ pc[p] = "done"
                    /\ result[p] = trace[p][i].ret

\* the expire of a Stop failed after its set
C19_Witness ==
    \E p \in Procs :
        /\ IsStop(p) /\ Returned(p) /\ result[p] = "StoreError"
        /\ \E i \in Calls(p, "expire") : trace[p][i].ret = "StoreError"

AllConnectLabels == ConnectLabels \cup TimerConnectLabels

\* C20: a command is at a Connect call only while the client is not
\* connected, makes at most one Connect call, and a Connect call of its that
\* failed left the client not connected: with a connected client the command
\* makes its store and queue calls without any Connect.
C20_ConnectsLazily ==
    \A p \in Procs :
        /\ pc[p] \in AllConnectLabels => ~connected
        /\ Cardinality(Calls(p, "connect")) <= 1
        /\ \A i \in Calls(p, "connect") : trace[p][i].ret # "ok" => ~connected

\* a command made its store or queue calls on the connection an earlier one
\* had opened
C20_Witness ==
    \E p \in Procs :
        /\ connected /\ Succeeded(p)
        /\ Calls(p, "connect") = {}
        /\ \E i \in 1..Len(trace[p]) :
              trace[p][i].op \in {"del:builds", "hget:timeoutConfigs",
                                  "delDelayed:frozenBuilds",
                                  "delDelayed:periodicBuilds"}

----------------------------------------------------------------------------
\* C21: every command is idempotent on its declared key: issued twice in a
\* row with the same configuration, it leaves the hash tables, the ready
\* queues and the delayed indexes as issuing it once left them.
C21_CommandsAreIdempotent ==
    \A p \in Procs :
        (Succeeded(p) /\ loc[p].again) => Tables = loc[p].entry

\* the calls of _stopFrozen, behind the connect of the command
StopFrozenOps == {"connect", "delDelayed:frozenBuilds", "hdel:frozenBuildConfigs"}

\* C22: Start for a job that is DISABLED or archived makes no call beyond
\* those of the StopFrozen of its first step (no BuildConfig or FrozenConfig
\* stored, nothing enqueued on builds or frozenBuilds, no UpdateBuildStatus,
\* no build.update), and returns success once StopFrozen is through.
C22_DisabledStartOnlyStopsFrozen ==
    \A p \in Procs :
        (IsStart(p) /\ ~Enabled(cmd[p].config)) =>
            /\ \A i \in 1..Len(trace[p]) : trace[p][i].op \in StopFrozenOps
            /\ (\E i \in Calls(p, "hdel:frozenBuildConfigs") :
                    trace[p][i].ret \in {"0", "1"}) => Succeeded(p)
            /\ Succeeded(p) =>
                  /\ ~HHas(frozenBuildConfigs, cmd[p].config.jobId)
                  /\ DelayedAt(frozenDelayed, cmd[p].config.jobId) = {}

\* a disabled or archived job that had a frozen build waiting is started:
\* the Start drops the waiting build and its config, and does nothing else
C22_Witness ==
    \E p \in Procs :
        /\ IsStart(p) /\ ~Enabled(cmd[p].config) /\ Succeeded(p)
        /\ trace[p][First(p, "delDelayed:frozenBuilds")].at # {}
        /\ trace[p][First(p, "hdel:frozenBuildConfigs")].ret = "1"

IsStartFrozen(p) == cmd[p].op = "startFrozen" /\ "jobState" \in DOMAIN cmd[p].config

\* C23: StartFrozen posts no event and returns success when the job is
\* DISABLED or archived; otherwise it calls PostEvent with the cause "Started
\* by freeze window scheduler" and returns success even when PostEvent fails.
C23_StartFrozenAlwaysSucceeds ==
    \A p \in Procs :
        IsStartFrozen(p) =>
            IF Enabled(cmd[p].config)
            THEN /\ pc[p] # "hung"
                 /\ \A i \in Calls(p, "postBuildEvent") :
                        trace[p][i].at = {"Started by freeze window scheduler"}
                 /\ Returned(p) =>
                        /\ result[p] = "ok"
                        /\ Calls(p, "postBuildEvent") # {}
            ELSE /\ Calls(p, "postBuildEvent") = {}
                 /\ Succeeded(p)

Attempted(p) == Calls(p, "attempt")
IsPostEvent(p) == cmd[p].op = "postBuildEvent"
IsUpdateBuildStatus(p) == cmd[p].op = "updateBuildStatus"

\* C24: PostEvent treats HTTP 201 as success and HTTP 404 as a terminal
\* success: after a 201 or a 404 no further attempt is made and the operation
\* has completed successfully, with no error for its caller.
C24_PostEvent404IsSuccess ==
    \A p \in Procs :
        IsPostEvent(p) =>
            \A i \in Attempted(p) :
                trace[p][i].key \in {201, 404} =>
                    /\ i = Len(trace[p])
                    /\ pc[p] = "done"
                    /\ result[p] = "resolved"

\* C25: UpdateBuildStatus makes at most 3 attempts, makes another attempt
\* after every outcome other than HTTP 200 while it has attempts left, and
\* succeeds exactly when an attempt returns 200.
C25_UpdateBuildStatusRetries ==
    \A p \in Procs :
        IsUpdateBuildStatus(p) =>
            /\ Cardinality(Attempted(p)) <= RETRY_LIMIT
            /\ \A i \in Attempted(p) :
                  /\ trace[p][i].key = 200 =>
                        i = Len(trace[p]) /\ pc[p] = "done"
                  /\ (trace[p][i].key # 200 /\ i < RETRY_LIMIT) =>
                        (i < Len(trace[p]) \/ pc[p] = "http.attempt")
            /\ result[p] = "resolved" <=>
                  \E i \in Attempted(p) : trace[p][i].key = 200

\* a startDelayed item of job 1 has matured (the scheduler moved it to the
\* ready queue) and the PeriodicConfig of the job exists
Matured ==
    /\ HHas(periodicBuildConfigs, 1)
    /\ \E i \in 1..Len(periodicReady) : periodicReady[i] = 1

\* the handler has run for the item: it read the config, StartPeriodic was
\* called with triggerBuild, made its PostEvent, and the next firing is
\* scheduled
Handled ==
    \E p \in Procs :
        /\ IsStartPeriodic(p) /\ cmd[p].by = "worker" /\ Succeeded(p)
        /\ cmd[p].config.triggerBuild
        /\ \E i \in Calls(p, "hget:periodicBuildConfigs") : trace[p][i].ret = "ok"
        /\ Calls(p, "postBuildEvent") # {}
        /\ \E i \in EnqueueAts(p) :
              trace[p][i].ret \in {"ok", "duplicate"}
        /\ DelayedAt(periodicDelayed, 1) # {}
        /\ periodicReady = <<>>

\* C26: with a fair scheduler and fair workers, every startDelayed item that
\* matures while the PeriodicConfig of its job exists is eventually handled:
\* the handler reads the config, calls StartPeriodic with triggerBuild, the
\* event is posted and the next firing of the job is scheduled.
C26_MaturedItemIsHandled == Matured ~> Handled

\* the BuildConfig that the Start of p stored is still there
StoredBy(p) ==
    /\ \E i \in Calls(p, "hset:buildConfigs") : trace[p][i].ret = "ok"
    /\ HHas(buildConfigs, cmd[p].config.buildId)

\* C27: the enqueueTime of a stored BuildConfig is set when its start item is
\* successfully enqueued and never rewritten: when a Start has returned, the
\* BuildConfig it stored carries an enqueueTime only if its Enqueue
\* succeeded, and no step changes the enqueueTime a BuildConfig already has.
C27_EnqueueTimeWrittenOnce ==
    /\ [](\A p \in Procs :
            (IsStart(p) /\ Returned(p) /\ StoredBy(p)) =>
                \E i \in Calls(p, "enqueue:builds") : trace[p][i].ret = "ok")
    /\ [][\A b \in DOMAIN buildConfigs \cap DOMAIN buildConfigs' :
            buildConfigs'[b].enqueueTime = buildConfigs[b].enqueueTime]_vars

IsTransform(p) == cmd[p].op = "transform"
\* the expression transform returned to p
Transformed(p) == CHOOSE fields \in trace[p][1].at : TRUE

Decided(p) ==
    \E i \in Calls(p, "hdel:frozenBuildConfigs") : trace[p][i].ret \in {"0", "1"}
OnFrozenPath(p) ==
    \/ pc[p] \in {"start.updateBuildStatus", "start.delDelayed",
                  "start.hsetFrozen", "start.enqueueAt"}
    \/ Calls(p, "updateBuildStatus") # {}
OnReadyPath(p) ==
    \/ pc[p] \in {"start.hset", "start.enqueue"}
    \/ Calls(p, "hset:buildConfigs") # {}
Covered(windows, t) == \E i \in 1..Len(windows) : t \in windows[i]

StoreCalls(p) == {i \in 1..Len(trace[p]) : trace[p][i].op \in StoreOps}

\* C30: every hash table, queue and string key that an executor configured
\* with prefix x reads or writes has a name that begins with x, so that what
\* an executor with another prefix names in the same store is never the
\* same entry (the AbortMarker and timeoutConfigs included).
C30_NamesCarryThePrefix ==
    \A p \in Procs : \A i \in StoreCalls(p) : \A x \in Prefixes :
        /\ Head(NameOf(x, trace[p][i])) = x
        /\ \A q \in Procs : \A k \in StoreCalls(q) : \A y \in Prefixes \ {x} :
              NameOf(x, trace[p][i]) # NameOf(y, trace[q][k])

\* the steps of the frozen path of _start, in the order of the code
FrozenOrder ==
    <<"updateBuildStatus", "delDelayed:frozenBuilds", "hset:frozenBuildConfigs",
      "enqueueAt:frozenBuilds">>

\* C31: in the frozen path of Start the steps run in the order
\* UpdateBuildStatus(FROZEN), DeleteDelayed(frozenBuilds), HSet(frozenBuildConfigs),
\* EnqueueAt(t', frozenBuilds); whatever UpdateBuildStatus did, the Start goes
\* on to the three other steps, and has made them all when it returns with
\* none of them failing.
C31_FrozenPathOrder ==
    \A p \in Procs : IsStart(p) =>
        \A u \in Calls(p, "updateBuildStatus") :
            /\ pc[p] # "hung"
            /\ \A k \in 1..3 :
                  u + k <= Len(trace[p]) => trace[p][u + k].op = FrozenOrder[k + 1]
            /\ (Succeeded(p) \/ result[p] = "DuplicateScheduled") =>
                  Len(trace[p]) >= u + 3

\* C32: when Stop has removed a start item that was still queued, the
\* BuildConfig of that build is removed: once the Stop has returned,
\* buildConfigs holds no entry for the build aborted before it started.
C32_AbortedBuildLosesConfig ==
    \A p \in Procs :
        (IsStop(p) /\ Succeeded(p) /\ loc[p].numDeleted > 0) =>
            ~HHas(buildConfigs, cmd[p].config.buildId)

\* C33: a StartPeriodic for a job that is DISABLED or archived leaves no
\* PeriodicConfig and no scheduled startDelayed item for the job, whether or
\* not isUpdate is set.
C33_DisabledJobLosesPeriodic ==
    \A p \in Procs :
        (/\ IsStartPeriodic(p) /\ Succeeded(p)
         /\ (cmd[p].config.job.state = "DISABLED" \/ cmd[p].config.job.archived)) =>
            /\ ~HHas(periodicBuildConfigs, cmd[p].config.job.id)
            /\ DelayedAt(periodicDelayed, cmd[p].config.job.id) = {}

\* C34: under any interleaving of two concurrent Start calls for one job,
\* once both have completed every startFrozen item in the frozenBuilds
\* delayed index has a FrozenConfig under frozenBuildConfigs[jobId].
C34_FrozenItemHasConfig ==
    (\A p \in Procs : IsStart(p) /\ Returned(p)) =>
        \A item \in frozenDelayed : HHas(frozenBuildConfigs, item[2])

\* the invocation of p is the startDelayed handler, or the StartPeriodic it
\* goes on to
IsHandler(p) == cmd[p].by = "worker" /\ cmd[p].op \in {"startDelayed", "startPeriodic"}
IsStopPeriodic(p) == cmd[p].op = "stopPeriodic"

\* job 1 has no PeriodicConfig and no startDelayed item in the delayed index
PeriodicGone ==
    /\ ~HHas(periodicBuildConfigs, 1)
    /\ DelayedAt(periodicDelayed, 1) = {}

\* the StopPeriodic of q for job 1 has finished, and left job 1 stopped, while
\* the startDelayed handler p of that job is still in flight
StoppedUnderHandler(p, q) ==
    /\ IsHandler(p) /\ ~Returned(p) /\ JobOf(cmd[p]) = 1
    /\ IsStopPeriodic(q) /\ Succeeded(q) /\ JobOf(cmd[q]) = 1
    /\ PeriodicGone

\* C35: when StopPeriodic has run for a job while the startDelayed handler of
\* that job is in flight, no later step brings back the PeriodicConfig entry
\* or a startDelayed item of the job: the handler's re-enqueue does not
\* resurrect the stopped job, so once both have finished the job has neither.
C35_StoppedJobStaysStopped ==
    [][(\E p, q \in Procs : StoppedUnderHandler(p, q)) => PeriodicGone']_vars

\* the store and the queues as they are before any command has run
StoreUntouched ==
    /\ buildConfigs = <<>> /\ frozenBuildConfigs = <<>> /\ periodicBuildConfigs = <<>>
    /\ deleteKeys = <<>> /\ builds = <<>>
    /\ frozenDelayed = {} /\ periodicDelayed = {}
    /\ frozenReady = <<>> /\ periodicReady = <<>>

\* C36: when Start or Stop returns failure, the store and the queues are as
\* they were before the call; stated of the first command of a run, before
\* which they are empty: after a failed Start or Stop they are empty still.
C36_FailureLeavesNoTrace ==
    \A p \in Procs :
        (/\ IsStart(p) \/ IsStop(p)
         /\ Returned(p) /\ result[p] # "ok"
         /\ callsLeft = MaxCalls - 1) => StoreUntouched

\* the start items of build buildId on the ready builds queue
StartItemsOf(buildId) ==
    {i \in 1..Len(builds) :
        builds[i].jobName = "start" /\ builds[i].buildId = buildId}

\* C37: after a Stop has returned with success, the ready builds queue holds
\* no start item of its buildId, whatever blockedBy the Stop was given (none
\* included) and whatever blockedBy the Start had.
C37_StopRemovesStartItem ==
    \A p \in Procs :
        (IsStop(p) /\ Succeeded(p)) => StartItemsOf(cmd[p].config.buildId) = {}

\* the stop items on the ready builds queue that say the build had started
StartedStopItems ==
    {i \in 1..Len(builds) : builds[i].jobName = "stop" /\ builds[i].started}

\* C38: a stop item carries started = true only when a worker consumed the
\* start item of its build; where no worker takes anything off the builds
\* queue, so that every start item is still queued, was removed by a Stop, or
\* never existed, no stop item carries started = true.
C38_StartedOnlyWhenConsumed == StartedStopItems = {}

\* C39: postBuildEvent and updateBuildStatus always settle: whatever the
\* outcomes of the attempts, a transport error without a response object
\* included, the promise is resolved or rejected and is never left pending.
C39_HttpAlwaysSettles ==
    \A p \in Procs :
        (IsPostEvent(p) \/ IsUpdateBuildStatus(p)) => pc[p] # "hung"

\* a startDelayed item of jobId is pending, in the periodicBuilds delayed
\* index or on its ready queue
FiringPending(jobId) ==
    \/ DelayedAt(periodicDelayed, jobId) # {}
    \/ \E i \in 1..Len(periodicReady) : periodicReady[i] = jobId

\* C40: whenever no command and no handler is in flight, every job with an
\* entry in periodicBuildConfigs has a startDelayed item pending: a
\* StartPeriodic that has returned leaves no PeriodicConfig without a
\* scheduled firing.
C40_StoredConfigHasFiring ==
    (\A p \in Procs : pc[p] \in Idle) =>
        \A jobId \in JobIds :
            HHas(periodicBuildConfigs, jobId) => FiringPending(jobId)

====
